---- MODULE Spec2Model ----
(***************************************************************************)
(* LDAP entry model and LDIF codec of app/services/ldif.                   *)
(*                                                                         *)
(* A Python str is modelled as a sequence of Unicode code points, a list   *)
(* as a sequence, and a dict as a sequence of [name, values] records in    *)
(* insertion order (Python dicts iterate in insertion order).              *)
(***************************************************************************)
EXTENDS Integers, Sequences, FiniteSets, TLC

VARIABLES entries, result, arg, ret, heap, jobs, job_results, requests,
          state, node

vars == <<entries, result, arg, ret, heap, jobs, job_results, requests,
          state, node>>

(* The variables of the job service and of the coding-agents graph. *)
serviceVars == <<jobs, job_results, requests>>
graphVars == <<state, node>>

(***************************************************************************)
(* Bounds of the model.                                                    *)
(***************************************************************************)
MaxStrLen == 3
MaxDnLen == 4
MaxEntries == 2
MaxBatch == 3
MaxEntryValues == 3

(***************************************************************************)
(* Characters the code names, by code point.                               *)
(***************************************************************************)
LF == 10
SPACE == 32
COMMA == 44
COLON == 58
EQUALS == 61
BACKSLASH == 92

\* String literals of the code and of the inputs of the model.
S_dn == <<100, 110>>
S_objectClass == <<111, 98, 106, 101, 99, 116, 67, 108, 97, 115, 115>>
S_top == <<116, 111, 112>>
S_person == <<112, 101, 114, 115, 111, 110>>
S_cn == <<99, 110>>
S_sn == <<115, 110>>
S_a == <<97>>
S_dc_x == <<100, 99, 61, 120>>
S_cn_a == <<99, 110, 61, 97>>
S_invalid == <<105, 110, 118, 97, 108, 105, 100>>
S_cn_eacute == <<99, 110, 61, 233>>
S_one_c == <<49, 99>>
S_cn_lf == <<99, 110, 10>>
S_top_lf == <<116, 111, 112, 10>>
S_sp_a == <<32, 97>>
S_a_lf_b == <<97, 10, 98>>

\* The strings over alphabet A of length at most n.
StringsUpTo(A, n) == UNION {[1..k -> A] : k \in 0..n}

RECURSIVE Concat(_)
\* "".join(parts)
Concat(parts) ==
    IF parts = <<>> THEN <<>> ELSE Head(parts) \o Concat(Tail(parts))

RECURSIVE Join(_, _)
\* sep.join(parts)
Join(parts, sep) ==
    IF parts = <<>> THEN <<>>
    ELSE IF Len(parts) = 1 THEN parts[1]
    ELSE parts[1] \o sep \o Join(Tail(parts), sep)

\* is_safe_string without its check of the last character.
is_safe_string_no_trailing_check(s) ==
    IF s = <<>> THEN TRUE
    ELSE IF \E i \in 1..Len(s) : s[i] > 127 \/ s[i] = 0 \/ s[i] = 10 \/ s[i] = 13
         THEN FALSE
    ELSE IF s[1] = 32 \/ s[1] = 58 \/ s[1] = 60 THEN FALSE
    ELSE TRUE

(***************************************************************************)
(* generator.py: is_safe_string                                            *)
(***************************************************************************)
is_safe_string(s) ==
    IF s = <<>> THEN TRUE
    ELSE IF \E i \in 1..Len(s) : s[i] > 127 \/ s[i] = 0 \/ s[i] = 10 \/ s[i] = 13
         THEN FALSE
    ELSE IF s[1] = 32 \/ s[1] = 58 \/ s[1] = 60 THEN FALSE
    ELSE IF s[Len(s)] = SPACE THEN FALSE
    ELSE TRUE

(***************************************************************************)
(* generator.py: encode_value = base64.b64encode(value.encode("utf-8"))    *)
(***************************************************************************)
\* str.encode("utf-8") of one code point (surrogates are not in any alphabet
\* of this model, so the encoder never raises).
utf8_char(c) ==
    IF c < 128 THEN <<c>>
    ELSE IF c < 2048 THEN <<192 + (c \div 64), 128 + (c % 64)>>
    ELSE IF c < 65536
         THEN <<224 + (c \div 4096), 128 + ((c \div 64) % 64), 128 + (c % 64)>>
    ELSE <<240 + (c \div 262144), 128 + ((c \div 4096) % 64),
           128 + ((c \div 64) % 64), 128 + (c % 64)>>

utf8_encode(s) == Concat([i \in 1..Len(s) |-> utf8_char(s[i])])

\* The base64 alphabet A-Z a-z 0-9 + / as code points.
b64_char(v) ==
    IF v < 26 THEN 65 + v
    ELSE IF v < 52 THEN 97 + (v - 26)
    ELSE IF v < 62 THEN 48 + (v - 52)
    ELSE IF v = 62 THEN 43
    ELSE 47

RECURSIVE b64encode(_)
b64encode(bytes) ==
    IF bytes = <<>> THEN <<>>
    ELSE IF Len(bytes) = 1
         THEN <<b64_char(bytes[1] \div 4), b64_char((bytes[1] % 4) * 16),
                EQUALS, EQUALS>>
    ELSE IF Len(bytes) = 2
         THEN <<b64_char(bytes[1] \div 4),
                b64_char((bytes[1] % 4) * 16 + (bytes[2] \div 16)),
                b64_char((bytes[2] % 16) * 4), EQUALS>>
    ELSE <<b64_char(bytes[1] \div 4),
           b64_char((bytes[1] % 4) * 16 + (bytes[2] \div 16)),
           b64_char((bytes[2] % 16) * 4 + (bytes[3] \div 64)),
           b64_char(bytes[3] % 64)>>
         \o b64encode(SubSeq(bytes, 4, Len(bytes)))

encode_value(value) == b64encode(utf8_encode(value))

(***************************************************************************)
(* validator.py                                                            *)
(***************************************************************************)
\* The characters str.strip() removes (Unicode whitespace).
IsWhitespace(c) ==
    \/ c \in 9..13
    \/ c \in 28..32
    \/ c \in {133, 160, 5760, 8232, 8233, 8239, 8287, 12288}
    \/ c \in 8192..8202

RECURSIVE lstrip(_)
lstrip(s) ==
    IF s # <<>> /\ IsWhitespace(s[1]) THEN lstrip(Tail(s)) ELSE s

RECURSIVE rstrip(_)
rstrip(s) ==
    IF s # <<>> /\ IsWhitespace(s[Len(s)])
    THEN rstrip(SubSeq(s, 1, Len(s) - 1))
    ELSE s

strip(s) == rstrip(lstrip(s))

\* The regular expression classes [a-zA-Z] and [a-zA-Z0-9-].
IsLetter(c) == c \in 65..90 \/ c \in 97..122

IsKeyChar(c) == IsLetter(c) \/ c \in 48..57 \/ c = 45

\* Number of leading characters of s, from position i on, that satisfy
\* [a-zA-Z0-9-] (the greedy run of a character class).
RECURSIVE KeyRun(_, _)
KeyRun(s, i) ==
    IF i <= Len(s) /\ IsKeyChar(s[i]) THEN 1 + KeyRun(s, i + 1) ELSE 0

\* '.*$' of re.match without flags on the rest of a string: '.' matches
\* anything but a newline and '$' matches at the end or just before a
\* newline that ends the string.
DotStarDollar(s, from) ==
    \A i \in from..Len(s) : s[i] = LF => i = Len(s)

\* re.match(r'^[a-zA-Z0-9-]+=.*$', part)
part_pattern_match(part) ==
    LET k == KeyRun(part, 1)
    IN  /\ k >= 1
        /\ k < Len(part)
        /\ part[k + 1] = EQUALS
        /\ DotStarDollar(part, k + 2)

\* The splitting loop of validate_dn: the state after reading dn[i..].
RECURSIVE split_loop(_, _, _, _, _)
split_loop(dn, i, parts, current_part, escaped) ==
    IF i > Len(dn)
    THEN [parts |-> parts, current_part |-> current_part, escaped |-> escaped]
    ELSE IF escaped
         THEN split_loop(dn, i + 1, parts, Append(current_part, dn[i]), FALSE)
    ELSE IF dn[i] = BACKSLASH
         THEN split_loop(dn, i + 1, parts, Append(current_part, dn[i]), TRUE)
    ELSE IF dn[i] = COMMA
         THEN split_loop(dn, i + 1, Append(parts, current_part), <<>>, FALSE)
    ELSE split_loop(dn, i + 1, parts, Append(current_part, dn[i]), FALSE)

\* The loop splitting at every comma, escaped or not.
RECURSIVE split_loop_every_comma(_, _, _, _, _)
split_loop_every_comma(dn, i, parts, current_part, escaped) ==
    IF i > Len(dn)
    THEN [parts |-> parts, current_part |-> current_part, escaped |-> escaped]
    ELSE IF dn[i] = COMMA
         THEN split_loop_every_comma(dn, i + 1, Append(parts, current_part),
                                     <<>>, FALSE)
    ELSE IF escaped
         THEN split_loop_every_comma(dn, i + 1, parts,
                                     Append(current_part, dn[i]), FALSE)
    ELSE split_loop_every_comma(dn, i + 1, parts, Append(current_part, dn[i]),
                                dn[i] = BACKSLASH)

split_every_comma(dn) == split_loop_every_comma(dn, 1, <<>>, <<>>, FALSE)

\* The loop over the characters of dn, from parts = [], current_part = ""
\* and escaped = False.
split(dn) == split_loop(dn, 1, <<>>, <<>>, FALSE)

\* The loop over the parts passing over an empty part instead of failing.
part_ok_skip_empty(part) ==
    LET p == strip(part)
    IN  IF p = <<>> THEN TRUE ELSE part_pattern_match(p)

\* What the loop over the parts decides for one part.
part_ok(part) ==
    LET p == strip(part)
    IN  IF p = <<>> THEN FALSE ELSE part_pattern_match(p)

validate_dn(dn) ==
    IF dn = <<>> THEN FALSE
    ELSE LET st == split(dn)
             parts == Append(st.parts, st.current_part)
         IN  IF st.escaped THEN FALSE
             ELSE \A k \in 1..Len(parts) : part_ok(parts[k])

\* re.match(r'^[a-zA-Z][a-zA-Z0-9-]*$', name)
validate_attribute_name(name) ==
    /\ name # <<>>
    /\ IsLetter(name[1])
    /\ LET k == 1 + KeyRun(name, 2)
       IN  k = Len(name) \/ (k = Len(name) - 1 /\ name[Len(name)] = LF)

(***************************************************************************)
(* models.py: LDAPEntry                                                    *)
(***************************************************************************)
\* LDAPEntry.__init__; a missing (None) or empty argument gives [] and {}.
LDAPEntry(rdn, parent_dn, object_classes, attributes) ==
    [rdn |-> rdn, parent_dn |-> parent_dn,
     object_classes |-> object_classes, attributes |-> attributes]

\* LDAPEntry.dn
dn(entry) ==
    IF entry.parent_dn = <<>> THEN entry.rdn
    ELSE entry.rdn \o <<COMMA>> \o entry.parent_dn

\* 'name in self.attributes'
HasAttr(attributes, name) ==
    \E k \in 1..Len(attributes) : attributes[k].name = name

\* LDAPEntry.add_attribute
add_attribute(entry, name, value) ==
    LET attrs == IF HasAttr(entry.attributes, name) THEN entry.attributes
                 ELSE Append(entry.attributes, [name |-> name, values |-> <<>>])
    IN  [entry EXCEPT !.attributes =
            [k \in 1..Len(attrs) |->
                IF attrs[k].name = name
                THEN [attrs[k] EXCEPT !.values = Append(@, value)]
                ELSE attrs[k]]]

(***************************************************************************)
(* validator.py: validate_entry.  The ValueError raised is modelled by the *)
(* field and the value its message names; NoError is a normal return.      *)
(***************************************************************************)
NoError == [field |-> "none", value |-> <<>>]

ValueError(field, value) == [field |-> field, value |-> value]

RECURSIVE check_object_classes(_, _)
check_object_classes(object_classes, k) ==
    IF k > Len(object_classes) THEN NoError
    ELSE IF ~validate_attribute_name(object_classes[k])
         THEN ValueError("objectClass", object_classes[k])
    ELSE check_object_classes(object_classes, k + 1)

\* isinstance(values, list): the attribute map of the model holds lists only.
RECURSIVE check_attributes(_, _)
check_attributes(attributes, k) ==
    IF k > Len(attributes) THEN NoError
    ELSE IF ~validate_attribute_name(attributes[k].name)
         THEN ValueError("attribute name", attributes[k].name)
    ELSE check_attributes(attributes, k + 1)

\* validate_entry with its checks in the opposite order.
validate_entry_attributes_first(entry) ==
    LET at == check_attributes(entry.attributes, 1)
        oc == check_object_classes(entry.object_classes, 1)
    IN  IF at # NoError THEN at
        ELSE IF oc # NoError THEN oc
        ELSE IF ~validate_dn(dn(entry)) THEN ValueError("DN", dn(entry))
        ELSE NoError

validate_entry(entry) ==
    IF ~validate_dn(dn(entry)) THEN ValueError("DN", dn(entry))
    ELSE LET oc == check_object_classes(entry.object_classes, 1)
         IN  IF oc # NoError THEN oc
             ELSE check_attributes(entry.attributes, 1)

(***************************************************************************)
(* generator.py: LDIFGenerator                                             *)
(***************************************************************************)
\* Rendering that never encodes.
render_plain(name, value) == name \o <<COLON, SPACE>> \o value

\* f"{name}: {value}" or f"{name}:: {encode_value(value)}"
render(name, value) ==
    IF is_safe_string(value)
    THEN name \o <<COLON, SPACE>> \o value
    ELSE name \o <<COLON, COLON, SPACE>> \o encode_value(value)

\* The lines appended for the values of one attribute.
attribute_lines(attr) ==
    [j \in 1..Len(attr.values) |-> render(attr.name, attr.values[j])]

\* The lines without the one of the DN.
generate_lines_no_dn(entry) ==
    [k \in 1..Len(entry.object_classes) |->
        render(S_objectClass, entry.object_classes[k])]
    \o Concat([k \in 1..Len(entry.attributes) |->
            attribute_lines(entry.attributes[k])])

\* The list 'lines' at the end of generate.
generate_lines(entry) ==
    <<render(S_dn, dn(entry))>>
    \o [k \in 1..Len(entry.object_classes) |->
            render(S_objectClass, entry.object_classes[k])]
    \o Concat([k \in 1..Len(entry.attributes) |->
            attribute_lines(entry.attributes[k])])

\* generate without the call of entry.validate().
generate_unvalidated(entry) ==
    [status |-> "ok", error |-> NoError,
     output |-> Join(generate_lines(entry), <<LF>>)]

\* LDIFGenerator.generate on one entry: the exception of entry.validate()
\* leaves the call before any line is built.
generate(entry) ==
    LET err == validate_entry(entry)
    IN  IF err # NoError
        THEN [status |-> "error", error |-> err, output |-> <<>>]
        ELSE [status |-> "ok", error |-> NoError,
              output |-> Join(generate_lines(entry), <<LF>>)]

\* The loop of generate_batch from entry k on, with the outputs so far.
RECURSIVE batch_loop(_, _, _)
batch_loop(batch, k, ldif_outputs) ==
    IF k > Len(batch)
    THEN [status |-> "ok", error |-> NoError,
          output |-> Join(ldif_outputs, <<LF, LF>>)]
    ELSE LET r == generate(batch[k])
         IN  IF r.status = "error" THEN r
             ELSE batch_loop(batch, k + 1, Append(ldif_outputs, r.output))

\* generate_batch that catches the error of an entry and goes on.
RECURSIVE batch_loop_skip_invalid(_, _, _)
batch_loop_skip_invalid(batch, k, ldif_outputs) ==
    IF k > Len(batch)
    THEN [status |-> "ok", error |-> NoError,
          output |-> Join(ldif_outputs, <<LF, LF>>)]
    ELSE LET r == generate(batch[k])
         IN  IF r.status = "error"
             THEN batch_loop_skip_invalid(batch, k + 1, ldif_outputs)
             ELSE batch_loop_skip_invalid(batch, k + 1, Append(ldif_outputs, r.output))

generate_batch_skip_invalid(batch) == batch_loop_skip_invalid(batch, 1, <<>>)

\* generate_batch that ends every block with a blank line.
generate_batch_trailing_separator(batch) ==
    LET r == batch_loop(batch, 1, <<>>)
    IN  IF r.status = "ok" /\ batch # <<>>
        THEN [r EXCEPT !.output = @ \o <<LF, LF>>]
        ELSE r

generate_batch(batch) == batch_loop(batch, 1, <<>>)

(***************************************************************************)
(* The calls a program makes.  'entries' holds the entries the caller has  *)
(* constructed, 'result' the outcome of its latest call: the operation,    *)
(* the positions in 'entries' of the entries passed, whether it returned   *)
(* or raised, the error raised and the text returned.                      *)
(***************************************************************************)
Call(op, args, r) ==
    [op |-> op, args |-> args, status |-> r.status, error |-> r.error,
     output |-> r.output]

Returned == [status |-> "ok", error |-> NoError, output |-> <<>>]

NoCall == Call("none", <<>>, Returned)

NoRet == [fn |-> "none", val |-> FALSE]

\* No list, dict or entry object exists.
NoHeap == [lists |-> <<>>, dicts |-> <<>>, objects |-> <<>>]

(* The job service before any request: _jobs and _job_results are empty. *)
NoJobs == jobs = <<>> /\ job_results = <<>> /\ requests = <<>>

(* A task text, kept as what the agents look at: the keywords of           *)
(* infer_function_name that occur in it in any case, whether it has upper  *)
(* case letters, whether it has white space to strip or collapse, and      *)
(* whether it breaks the docstring of the generated module (three double   *)
(* quotes, a double quote or a backslash at its end, a bad escape, a null  *)
(* character).                                                             *)
NoTask ==
    [keywords |-> {}, upper |-> FALSE, padded |-> FALSE,
     breaks_module |-> FALSE]

NoModule == [func_name |-> "", task |-> NoTask]

(* CodingState(task=task): every other field at its default. *)
CodingState(task) ==
    [task |-> task, normalized_task |-> NoTask, plan |-> NoModule,
     code |-> NoModule, tests |-> NoModule, test_passed |-> FALSE,
     test_output |-> "", iterations |-> 0, status |-> "idle",
     history |-> <<>>]

(* No graph run has been started. *)
NoGraph == state = CodingState(NoTask) /\ node = "none"

\* Number of attribute values an entry holds.
RECURSIVE TotalValues(_)
TotalValues(attributes) ==
    IF attributes = <<>> THEN 0
    ELSE Len(Head(attributes).values) + TotalValues(Tail(attributes))

\* entry = LDAPEntry(rdn, parent_dn, object_classes, attributes)
NewEntry(rdn, parent_dn, object_classes, attributes) ==
    /\ Len(entries) < MaxEntries
    /\ entries' = Append(entries,
                         LDAPEntry(rdn, parent_dn, object_classes, attributes))
    /\ result' = Call("LDAPEntry", <<Len(entries) + 1>>, Returned)
    /\ UNCHANGED <<arg, ret, heap, serviceVars, graphVars>>

\* entries[i].add_attribute(name, value)
AddAttribute(i, name, value) ==
    /\ i \in 1..Len(entries)
    /\ TotalValues(entries[i].attributes) < MaxEntryValues
    /\ entries' = [entries EXCEPT ![i] = add_attribute(@, name, value)]
    /\ result' = Call("add_attribute", <<i>>, Returned)
    /\ UNCHANGED <<arg, ret, heap, serviceVars, graphVars>>

\* entries[i].validate()
Validate(i) ==
    /\ i \in 1..Len(entries)
    /\ LET err == validate_entry(entries[i])
       IN  result' = Call("validate", <<i>>,
                          [status |-> IF err = NoError THEN "ok" ELSE "error",
                           error |-> err, output |-> <<>>])
    /\ UNCHANGED <<entries, arg, ret, heap, serviceVars, graphVars>>

\* LDIFGenerator.generate(entries[i])
Generate(i) ==
    /\ i \in 1..Len(entries)
    /\ result' = Call("generate", <<i>>, generate(entries[i]))
    /\ UNCHANGED <<entries, arg, ret, heap, serviceVars, graphVars>>

\* LDIFGenerator.generate([entries[b[1]], ..., entries[b[n]]]); generate
\* hands a list to generate_batch.
GenerateBatch(b) ==
    /\ result' = Call("generate_batch", b,
                      generate_batch([k \in 1..Len(b) |-> entries[b[k]]]))
    /\ UNCHANGED <<entries, arg, ret, heap, serviceVars, graphVars>>

\* is_safe_string(arg)
CallIsSafeString ==
    /\ ret' = [fn |-> "is_safe_string", val |-> is_safe_string(arg)]
    /\ UNCHANGED <<entries, result, arg, heap, serviceVars, graphVars>>

(***************************************************************************)
(* Spec: a caller that constructs entries, adds values and renders them    *)
(* one by one or as a batch.                                               *)
(***************************************************************************)
RdnInputs == {S_invalid, S_cn_a}

ParentInputs == {<<>>, S_dc_x}

\* A parent DN with the attribute map given along with it.
ParentAndAttributeInputs ==
    { [parent_dn |-> <<>>,
       attributes |-> <<[name |-> S_cn, values |-> <<S_dn \o <<COLON>>>>]>>],
      [parent_dn |-> S_dc_x,
       attributes |-> <<[name |-> S_cn_lf, values |-> <<<<>>, S_sp_a>>]>>] }

Init ==
    /\ entries = <<>>
    /\ result = NoCall
    /\ arg = <<>>
    /\ ret = NoRet
    /\ NoJobs /\ NoGraph
    /\ heap = NoHeap

Next ==
    \/ \E r \in RdnInputs, pa \in ParentAndAttributeInputs :
          NewEntry(r, pa.parent_dn, <<S_top>>, pa.attributes)
    \/ \E i \in 1..MaxEntries : Validate(i)
    \/ \E i \in 1..MaxEntries : Generate(i)
    \/ \E b \in StringsUpTo(1..Len(entries), MaxBatch) : GenerateBatch(b)

Spec == Init /\ [][Next]_vars

(***************************************************************************)
(* SpecEntry: one entry, constructed from every combination of the inputs  *)
(* below, then extended, validated and rendered.                           *)
(***************************************************************************)
EntryRdnInputs == {<<>>, S_invalid, S_cn_a, S_cn_eacute}

ObjectClassInputs ==
    {<<>>, <<S_top>>, <<S_top, S_person>>, <<S_one_c>>, <<S_top_lf>>,
     <<S_top, S_one_c, <<>>>>}

AttributeInputs ==
    { <<>>,
      <<[name |-> S_cn, values |-> <<S_a>>]>>,
      <<[name |-> S_cn, values |-> <<>>]>>,
      <<[name |-> S_sn, values |-> <<S_sp_a, <<>>>>], [name |-> S_cn, values |-> <<S_a>>]>>,
      <<[name |-> S_cn_lf, values |-> <<S_a>>]>>,
      <<[name |-> S_one_c, values |-> <<S_a>>]>>,
      <<[name |-> S_cn, values |-> <<S_a>>],
        [name |-> S_sp_a, values |-> <<S_a>>],
        [name |-> S_one_c, values |-> <<S_a>>]>> }

ValueInputs == {S_a, S_a_lf_b, <<COLON>>}

InitEntry ==
    /\ entries \in {<<LDAPEntry(r, p, oc, at)>> :
                      r \in EntryRdnInputs, p \in ParentInputs,
                      oc \in ObjectClassInputs, at \in AttributeInputs}
    /\ result = Call("LDAPEntry", <<1>>, Returned)
    /\ arg = <<>>
    /\ ret = NoRet
    /\ NoJobs /\ NoGraph
    /\ heap = NoHeap

NextEntry ==
    \/ \E n \in {S_cn, S_sn}, v \in ValueInputs :
          AddAttribute(1, n, v)
    \/ Validate(1)
    \/ Generate(1)

SpecEntry == InitEntry /\ [][NextEntry]_vars

(***************************************************************************)
(* SpecDN: validation of one entry whose rdn is any string of at most      *)
(* MaxDnLen characters over DnAlphabet: a letter, a digit, hyphen, '=',    *)
(* comma, backslash, space and newline.                                    *)
(***************************************************************************)
DnAlphabet == {97, 49, 45, EQUALS, COMMA, BACKSLASH, SPACE, LF}

InitDN ==
    /\ entries \in {<<LDAPEntry(r, p, <<S_top>>, <<>>)>> :
                      r \in StringsUpTo(DnAlphabet, MaxDnLen), p \in ParentInputs}
    /\ result = Call("LDAPEntry", <<1>>, Returned)
    /\ arg = <<>>
    /\ ret = NoRet
    /\ NoJobs /\ NoGraph
    /\ heap = NoHeap

NextDN ==
    \/ Validate(1)
    \/ Generate(1)

SpecDN == InitDN /\ [][NextDN]_vars

(***************************************************************************)
(* SpecSafe: is_safe_string on any string of at most MaxStrLen characters  *)
(* over SafeAlphabet: NUL, LF, CR, space, colon, '<', a letter, DEL (127), *)
(* 128 and e-acute.                                                        *)
(***************************************************************************)
SafeAlphabet == {0, LF, 13, SPACE, COLON, 60, 97, 127, 128, 233}

InitSafe ==
    /\ entries = <<>>
    /\ result = NoCall
    /\ arg \in StringsUpTo(SafeAlphabet, MaxStrLen)
    /\ ret = NoRet
    /\ NoJobs /\ NoGraph
    /\ heap = NoHeap

NextSafe == CallIsSafeString

SpecSafe == InitSafe /\ [][NextSafe]_vars

(***************************************************************************)
(* utils.py                                                                *)
(***************************************************************************)
\* One digit of f"{byte:02x}": lower-case hexadecimal.
hex_digit(d) == IF d < 10 THEN 48 + d ELSE 97 + (d - 10)

\* f"\\{byte:02x}"
hex_escape(byte) == <<BACKSLASH, hex_digit(byte \div 16), hex_digit(byte % 16)>>

\* The code points str.encode("utf-8") refuses with UnicodeEncodeError:
\* the surrogates U+D800..U+DFFF.
IsSurrogate(char) == char \in 55296..57343

IsDnSpecial_no_semicolon(char) == char \in {35, COMMA, 43, 34, BACKSLASH, 60, 62}

\* char in ("#", ",", "+", '"', "\\", "<", ">", ";")
IsDnSpecial(char) == char \in {35, COMMA, 43, 34, BACKSLASH, 60, 62, 59}

\* ord(char) < 32 or ord(char) > 126
IsNonPrintable(char) == char < 32 \/ char > 126

\* The loop leaving a backslash as it is.
escape_char_keep_backslash(char) ==
    IF IsDnSpecial(char) /\ char # BACKSLASH THEN <<BACKSLASH, char>>
    ELSE IF IsNonPrintable(char)
         THEN Concat([k \in 1..Len(utf8_char(char)) |-> hex_escape(utf8_char(char)[k])])
    ELSE <<char>>

\* What one turn of the loop appends to 'escaped'.
escape_char(char) ==
    IF IsDnSpecial(char) THEN <<BACKSLASH, char>>
    ELSE IF IsNonPrintable(char)
         THEN Concat([k \in 1..Len(utf8_char(char)) |-> hex_escape(utf8_char(char)[k])])
    ELSE <<char>>

\* The two statements after the loop: a leading, then a trailing space of
\* 'escaped' is replaced by backslash, space.
escape_spaces(escaped) ==
    LET lead == IF escaped # <<>> /\ escaped[1] = SPACE
                THEN <<BACKSLASH, SPACE>> \o Tail(escaped)
                ELSE escaped
    IN  IF lead # <<>> /\ lead[Len(lead)] = SPACE
        THEN SubSeq(lead, 1, Len(lead) - 1) \o <<BACKSLASH, SPACE>>
        ELSE lead

\* escape_dn_value(value): the text returned, or the error char.encode
\* raises on the first character it cannot encode.
escape_dn_value(value) ==
    IF \E i \in 1..Len(value) :
          ~IsDnSpecial(value[i]) /\ IsNonPrintable(value[i]) /\ IsSurrogate(value[i])
    THEN [status |-> "error", error |-> "UnicodeEncodeError", val |-> <<>>]
    ELSE [status |-> "ok", error |-> "none",
          val |-> escape_spaces(Concat([i \in 1..Len(value) |-> escape_char(value[i])]))]

\* escape_dn_value(arg)
CallEscapeDnValue ==
    /\ ret' = [fn |-> "escape_dn_value", status |-> escape_dn_value(arg).status,
               error |-> escape_dn_value(arg).error, val |-> escape_dn_value(arg).val]
    /\ UNCHANGED <<entries, result, arg, heap, serviceVars, graphVars>>

(***************************************************************************)
(* src/src/utils.py: the escape_dn_value of the src package.               *)
(***************************************************************************)
\* special_chars = {',', '+', '"', '\\', '<', '>', ';'}
special_chars == {COMMA, 43, 34, BACKSLASH, 60, 62, 59}

\* src.utils.escape_dn_value(value)
src_escape_dn_value(value) ==
    IF value = <<>> THEN <<>>
    ELSE LET leading == value[1] \in {35, SPACE}
             start_index == IF leading THEN 1 ELSE 0
             escaped ==
                (IF leading THEN <<BACKSLASH, value[1]>> ELSE <<>>)
                \o Concat([k \in 1..(Len(value) - start_index) |->
                             IF value[start_index + k] \in special_chars
                             THEN <<BACKSLASH, value[start_index + k]>>
                             ELSE <<value[start_index + k]>>])
             n == Len(escaped)
         IN  IF /\ escaped[n] = SPACE
                /\ ~(n >= 2 /\ escaped[n - 1] = BACKSLASH)
             THEN SubSeq(escaped, 1, n - 1) \o <<BACKSLASH, SPACE>>
             ELSE escaped

\* src.utils.escape_dn_value(arg)
CallSrcEscapeDnValue ==
    /\ ret' = [fn |-> "src.escape_dn_value", status |-> "ok", error |-> "none",
               val |-> src_escape_dn_value(arg)]
    /\ UNCHANGED <<entries, result, arg, heap, serviceVars, graphVars>>

(***************************************************************************)
(* SpecEscape: escape_dn_value on any string of at most MaxStrLen          *)
(* characters over EscapeAlphabet: a letter, a digit, the eight of the     *)
(* escape list (# , + " \ < > ;), space, '=', newline, DEL (127), e-acute, *)
(* the euro sign and a lone surrogate (U+D800).                            *)
(***************************************************************************)
EscapeAlphabet ==
    {97, 49, 35, COMMA, 43, 34, BACKSLASH, 60, 62, 59, SPACE, EQUALS, LF, 127,
     233, 8364, 55296}

InitEscape ==
    /\ entries = <<>>
    /\ result = NoCall
    /\ arg \in StringsUpTo(EscapeAlphabet, MaxStrLen)
    /\ ret = NoRet
    /\ NoJobs /\ NoGraph
    /\ heap = NoHeap

NextEscape ==
    \/ CallEscapeDnValue
    \/ CallSrcEscapeDnValue

SpecEscape == InitEscape /\ [][NextEscape]_vars

(***************************************************************************)
(* models.py with object identity.  Python lists and dicts are objects     *)
(* that several names can refer to: heap.lists and heap.dicts hold them,   *)
(* a dict maps each name to the position of its list in heap.lists, and an *)
(* entry object holds the position of its attributes dict in heap.dicts.   *)
(* Objects are never freed; the ones nothing refers to are left out.       *)
(***************************************************************************)
\* The argument value None; positions in the heap start at 1.
None == 0

S_uid == <<117, 105, 100>>
S_ou == <<111, 117>>
S_member == <<109, 101, 109, 98, 101, 114>>
S_mail == <<109, 97, 105, 108>>
S_organizationalPerson ==
    <<111, 114, 103, 97, 110, 105, 122, 97, 116, 105, 111, 110, 97, 108,
      80, 101, 114, 115, 111, 110>>
S_inetOrgPerson == <<105, 110, 101, 116, 79, 114, 103, 80, 101, 114, 115, 111, 110>>
S_groupOfNames == <<103, 114, 111, 117, 112, 79, 102, 78, 97, 109, 101, 115>>
S_organizationalUnit ==
    <<111, 114, 103, 97, 110, 105, 122, 97, 116, 105, 111, 110, 97, 108,
      85, 110, 105, 116>>

\* The list a dict maps name to.
RefOf(d, name) == d[CHOOSE k \in 1..Len(d) : d[k].name = name].ref

\* for k, v in additional_attributes.items(): extend the list of a name
\* already present, bind a new name to the caller's list v itself.
RECURSIVE merge_loop(_, _, _)
merge_loop(lists, attributes, items) ==
    IF items = <<>> THEN [lists |-> lists, attributes |-> attributes]
    ELSE IF HasAttr(attributes, Head(items).name)
         THEN merge_loop([lists EXCEPT ![RefOf(attributes, Head(items).name)] =
                              @ \o lists[Head(items).ref]],
                         attributes, Tail(items))
    ELSE merge_loop(lists, Append(attributes, Head(items)), Tail(items))

merge_replace(h, attributes, additional_attributes) ==
    [lists |-> h.lists,
     attributes |->
        IF additional_attributes = None THEN attributes
        ELSE SelectSeq(attributes,
                       LAMBDA a : ~HasAttr(h.dicts[additional_attributes], a.name))
             \o h.dicts[additional_attributes]]

\* if additional_attributes: ... (None and the empty dict are skipped)
merge_additional(h, attributes, additional_attributes) ==
    IF additional_attributes # None /\ h.dicts[additional_attributes] # <<>>
    THEN merge_loop(h.lists, attributes, h.dicts[additional_attributes])
    ELSE [lists |-> h.lists, attributes |-> attributes]

\* A constructor raised: the lists and the dict it had made are dropped,
\* what it did to lists of the caller stays.
Raised(h, lists, error, value) ==
    [status |-> "error", error |-> [field |-> error, value |-> value],
     heap |-> [h EXCEPT !.lists = SubSeq(lists, 1, Len(h.lists))]]

\* super().__init__(rdn, parent_dn, object_classes, attributes) with a dict
\* made by the constructor: the new dict and the new entry object.
Constructed(h, lists, rdn, parent_dn, object_classes, attributes) ==
    [status |-> "ok", error |-> NoError,
     heap |-> [lists |-> lists,
               dicts |-> Append(h.dicts, attributes),
               objects |-> Append(h.objects,
                                  LDAPEntry(rdn, parent_dn, object_classes,
                                            Len(h.dicts) + 1))]]

\* User(uid, parent_dn, cn, sn, additional_attributes)
User(h, uid, parent_dn, cn, sn, additional_attributes) ==
    LET n == Len(h.lists)
        made == [h EXCEPT !.lists = @ \o <<<<uid>>, <<cn>>, <<sn>>>>]
        merged == merge_additional(made,
                                   <<[name |-> S_uid, ref |-> n + 1],
                                     [name |-> S_cn, ref |-> n + 2],
                                     [name |-> S_sn, ref |-> n + 3]>>,
                                   additional_attributes)
    IN  IF escape_dn_value(uid).status = "error"
        THEN Raised(h, merged.lists, escape_dn_value(uid).error, uid)
        ELSE Constructed(h, merged.lists,
                         S_uid \o <<EQUALS>> \o escape_dn_value(uid).val, parent_dn,
                         <<S_top, S_person, S_organizationalPerson, S_inetOrgPerson>>,
                         merged.attributes)

\* Group(cn, parent_dn, members, additional_attributes): a non-empty
\* members list is stored itself, None and [] give a new empty list.
Group(h, cn, parent_dn, members, additional_attributes) ==
    LET n == Len(h.lists)
        own == members # None /\ h.lists[members] # <<>>
        made == [h EXCEPT !.lists =
                    @ \o (IF own THEN <<<<cn>>>> ELSE <<<<cn>>, <<>>>>)]
        merged == merge_additional(made,
                                   <<[name |-> S_cn, ref |-> n + 1],
                                     [name |-> S_member,
                                      ref |-> IF own THEN members ELSE n + 2]>>,
                                   additional_attributes)
    IN  IF escape_dn_value(cn).status = "error"
        THEN Raised(h, merged.lists, escape_dn_value(cn).error, cn)
        ELSE Constructed(h, merged.lists,
                         S_cn \o <<EQUALS>> \o escape_dn_value(cn).val, parent_dn,
                         <<S_top, S_groupOfNames>>, merged.attributes)

\* OU(name, parent_dn, additional_attributes)
OU(h, name, parent_dn, additional_attributes) ==
    LET n == Len(h.lists)
        made == [h EXCEPT !.lists = Append(@, <<name>>)]
        merged == merge_additional(made, <<[name |-> S_ou, ref |-> n + 1]>>,
                                   additional_attributes)
    IN  IF escape_dn_value(name).status = "error"
        THEN Raised(h, merged.lists, escape_dn_value(name).error, name)
        ELSE Constructed(h, merged.lists,
                         S_ou \o <<EQUALS>> \o escape_dn_value(name).val, parent_dn,
                         <<S_top, S_organizationalUnit>>, merged.attributes)

\* LDAPEntry(rdn, parent_dn, object_classes, attributes): a non-empty dict
\* of the caller is stored itself, None and {} give a new empty dict.
LDAPEntry_init(h, rdn, parent_dn, object_classes, attributes) ==
    IF attributes # None /\ h.dicts[attributes] # <<>>
    THEN [status |-> "ok", error |-> NoError,
          heap |-> [h EXCEPT !.objects =
                       Append(@, LDAPEntry(rdn, parent_dn, object_classes, attributes))]]
    ELSE Constructed(h, h.lists, rdn, parent_dn, object_classes, <<>>)

\* h.objects[o].add_attribute(name, value): the dict of the entry gets the
\* name bound to a new empty list if it lacks it, and the list bound to
\* the name gets the value appended in place.
add_attribute_obj(h, o, name, value) ==
    LET d == h.objects[o].attributes
        bound == IF HasAttr(h.dicts[d], name) THEN h
                 ELSE [h EXCEPT !.lists = Append(@, <<>>),
                                !.dicts[d] = Append(@, [name |-> name,
                                                        ref |-> Len(h.lists) + 1])]
    IN  [bound EXCEPT !.lists[RefOf(bound.dicts[d], name)] = Append(@, value)]

\* The value of a dict: its names with the values of their lists.
DictValue(h, d) ==
    [k \in 1..Len(h.dicts[d]) |->
        [name |-> h.dicts[d][k].name, values |-> h.lists[h.dicts[d][k].ref]]]

\* The fields of entry object o as values.
EntryOf(h, o) ==
    [h.objects[o] EXCEPT !.attributes = DictValue(h, @)]

\* The values a caller passes in an optional list or mapping argument.
ListArg(h, l) == IF l = None THEN <<>> ELSE h.lists[l]

MappingArg(h, d) == IF d = None THEN <<>> ELSE DictValue(h, d)

\* The outcome of a constructor call with the arguments it was given.
Construct(op, args, r) ==
    /\ heap' = r.heap
    /\ result' = [op |-> op, args |-> args, status |-> r.status,
                  error |-> r.error, output |-> <<>>]
    /\ UNCHANGED <<entries, arg, ret, serviceVars, graphVars>>

NewUser(uid, parent_dn, cn, sn, additional_attributes) ==
    Construct("User",
              [uid |-> uid, parent_dn |-> parent_dn, cn |-> cn, sn |-> sn,
               additional_attributes |-> MappingArg(heap, additional_attributes)],
              User(heap, uid, parent_dn, cn, sn, additional_attributes))

NewGroup(cn, parent_dn, members, additional_attributes) ==
    Construct("Group",
              [cn |-> cn, parent_dn |-> parent_dn, members |-> ListArg(heap, members),
               additional_attributes |-> MappingArg(heap, additional_attributes)],
              Group(heap, cn, parent_dn, members, additional_attributes))

NewOU(name, parent_dn, additional_attributes) ==
    Construct("OU",
              [name |-> name, parent_dn |-> parent_dn,
               additional_attributes |-> MappingArg(heap, additional_attributes)],
              OU(heap, name, parent_dn, additional_attributes))

NewLDAPEntry(rdn, parent_dn, object_classes, attributes) ==
    Construct("LDAPEntry",
              [rdn |-> rdn, parent_dn |-> parent_dn, object_classes |-> object_classes,
               attributes |-> MappingArg(heap, attributes)],
              LDAPEntry_init(heap, rdn, parent_dn, object_classes, attributes))

\* heap.objects[o].add_attribute(name, value)
AddAttributeObj(o, name, value) ==
    /\ o \in 1..Len(heap.objects)
    /\ \A k \in 1..Len(EntryOf(heap, o).attributes) :
          Len(EntryOf(heap, o).attributes[k].values) < MaxEntryValues
    /\ heap' = add_attribute_obj(heap, o, name, value)
    /\ result' = [op |-> "add_attribute",
                  args |-> [object |-> o, name |-> name, value |-> value],
                  status |-> "ok", error |-> NoError, output |-> <<>>]
    /\ UNCHANGED <<entries, arg, ret, serviceVars, graphVars>>

(***************************************************************************)
(* SpecModels: a caller that holds two lists and one mapping from names to *)
(* those lists, constructs one entry of any of the four classes from them  *)
(* and then adds values to it.                                             *)
(***************************************************************************)
CallerLists == <<<<S_a>>, <<S_sp_a, S_a>>>>

MappingInputs ==
    { <<>>,
      <<[name |-> S_mail, ref |-> 1]>>,
      <<[name |-> S_cn, ref |-> 1], [name |-> S_mail, ref |-> 2]>>,
      <<[name |-> S_mail, ref |-> 1], [name |-> S_ou, ref |-> 1]>>,
      <<[name |-> S_ou, ref |-> 2], [name |-> S_sn, ref |-> 1]>>,
      <<[name |-> S_member, ref |-> 1], [name |-> S_mail, ref |-> 1]>> }

\* Raw values of the naming attribute: plain, with characters the escaper
\* rewrites, and one it cannot encode.
NamingInputs ==
    {S_a, <<97, COMMA, SPACE, 98>>, <<35, 97>>, <<233, SPACE>>, <<55296>>,
     <<>>, <<SPACE>>, <<BACKSLASH, EQUALS, LF>>}

\* The caller has made no call yet: one constructor call is made, then
\* values are added to the entry it made.
NoCallYet == result = NoCall

InitModels ==
    /\ entries = <<>>
    /\ result = NoCall
    /\ arg = <<>>
    /\ ret = NoRet
    /\ NoJobs /\ NoGraph
    /\ heap \in {[lists |-> CallerLists, dicts |-> <<d>>, objects |-> <<>>] :
                    d \in MappingInputs}

NextModels ==
    \/ /\ NoCallYet
       /\ \E v \in NamingInputs, p \in ParentInputs, x \in {None, 1} :
             NewUser(v, p, S_cn, S_sn, x)
    \/ /\ NoCallYet
       /\ \E v \in NamingInputs, p \in ParentInputs, m \in {None, 2}, x \in {None, 1} :
             NewGroup(v, p, m, x)
    \/ /\ NoCallYet
       /\ \E v \in NamingInputs, p \in ParentInputs, x \in {None, 1} :
             NewOU(v, p, x)
    \/ /\ NoCallYet
       /\ \E p \in ParentInputs, x \in {None, 1} :
             NewLDAPEntry(S_cn_a, p, <<S_top>>, x)
    \/ \E n \in {S_cn, S_mail}, v \in {S_a, S_top} : AddAttributeObj(1, n, v)

SpecModels == InitModels /\ [][NextModels]_vars

(***************************************************************************)
(* SpecShared: the same caller constructs up to MaxEntries entries from    *)
(* the one mapping and the one members list it holds, and adds values to   *)
(* any of them.                                                            *)
(***************************************************************************)
NextShared ==
    \/ /\ Len(heap.objects) < MaxEntries
       /\ NewUser(S_a, <<>>, S_cn, S_sn, 1)
    \/ /\ Len(heap.objects) < MaxEntries
       /\ \E m \in {None, 2} : NewGroup(S_a, S_dc_x, m, None)
    \/ /\ Len(heap.objects) < MaxEntries
       /\ NewOU(S_a, <<>>, 1)
    \/ /\ Len(heap.objects) < MaxEntries
       /\ NewLDAPEntry(S_cn_a, <<>>, <<S_top>>, 1)
    \/ \E o \in 1..MaxEntries, n \in {S_mail, S_member} : AddAttributeObj(o, n, S_a)

InitShared ==
    /\ entries = <<>>
    /\ result = NoCall
    /\ arg = <<>>
    /\ ret = NoRet
    /\ NoJobs /\ NoGraph
    /\ heap = [lists |-> CallerLists,
               dicts |-> <<<<[name |-> S_mail, ref |-> 1]>>>>,
               objects |-> <<>>]

SpecShared == InitShared /\ [][NextShared]_vars

(***************************************************************************)
(* The generation jobs of app/services/generation_service.py and the HTTP  *)
(* handlers of app/routers/generation.py.                                  *)
(*                                                                         *)
(* 'jobs' is _jobs and 'job_results' is _job_results.  A job id is the     *)
(* position of the job in 'jobs': uuid4 gives every job a fresh id.  A     *)
(* record of the request data is a dict of strings, kept as a sequence of  *)
(* [key, value] pairs.  The time stamps of a job are left out.  Requests   *)
(* ask for the format "ldif".  No handler awaits between its service       *)
(* calls, so each handler is one step.                                     *)
(*                                                                         *)
(* 'requests' is a history variable: requests[j] is the request job j was  *)
(* created from.  The service keeps only its length (input_records), and   *)
(* no action reads 'requests'.                                             *)
(***************************************************************************)
MaxJobs == 2

S_User == <<85, 115, 101, 114>>
S_age == <<97, 103, 101>>
S_default_base_dn ==
    <<100, 99, EQUALS, 101, 120, 97, 109, 112, 108, 101, COMMA,
      100, 99, EQUALS, 99, 111, 109>>

AVAILABLE_SCHEMAS == {"user", "product", "transaction"}

\* A message: the pieces of its text, and the string it quotes if any.
Message(parts, value) == [parts |-> parts, value |-> value]

\* None where a message can stand.
NoMessage == Message(<<>>, <<>>)

\* GenerationJob(job_id=..., status=JobStatus.PENDING, input_records=n)
GenerationJob(input_records) ==
    [status |-> "pending", input_records |-> input_records,
     output_records |-> 0, progress_percentage |-> 0,
     error_message |-> NoMessage]

GenerationRequest(data, schema_name, base_dn) ==
    [data |-> data, schema_name |-> schema_name, base_dn |-> base_dn,
     format |-> "ldif"]

\* key in record
HasKey(record, key) == \E k \in 1..Len(record) : record[k].key = key

\* record.get(key): the value, or the empty string where Python has None
\* (both are false in a condition, and no other use is made of None).
Get(record, key) ==
    IF HasKey(record, key)
    THEN record[CHOOSE k \in 1..Len(record) : record[k].key = key].value
    ELSE <<>>

\* a or b
Or(a, b) == IF a # <<>> THEN a ELSE b

\* name.split()[-1]: the last run of non-whitespace characters; IndexError
\* when the name has none.
last_word(name) ==
    LET s == rstrip(name)
        starts == {i \in 1..Len(s) :
                     \A k \in i..Len(s) : ~IsWhitespace(s[k])}
    IN  IF s = <<>>
        THEN [status |-> "error", error |-> "IndexError", val |-> <<>>]
        ELSE [status |-> "ok", error |-> "none",
              val |-> SubSeq(s, CHOOSE i \in starts :
                                    \A j \in starts : i <= j, Len(s))]

\* The attributes dict of _record_to_ldap_entry, on a heap of its own:
\* mail from a non-empty email, age from any age.
extra_attributes(record) ==
    LET mail == IF HasKey(record, "email") /\ Get(record, "email") # <<>>
                THEN <<<<Get(record, "email")>>>> ELSE <<>>
        age == IF HasKey(record, "age")
               THEN <<<<Get(record, "age")>>>> ELSE <<>>
    IN  [lists |-> mail \o age,
         dicts |-> <<(IF mail # <<>> THEN <<[name |-> S_mail, ref |-> 1]>>
                      ELSE <<>>)
                     \o (IF age # <<>>
                         THEN <<[name |-> S_age, ref |-> Len(mail) + 1]>>
                         ELSE <<>>)>>,
         objects |-> <<>>]

\* _record_to_ldap_entry(record, request): "ok" with the entry, "none" for
\* None, "error" when it raises.
record_to_ldap_entry(record, request) ==
    LET none == [status |-> "none", entry |-> LDAPEntry(<<>>, <<>>, <<>>, <<>>)]
        base_dn == Or(request.base_dn, S_default_base_dn)
        uid == Or(Get(record, "id"), Get(record, "uid"))
        cn == Or(Get(record, "name"), Get(record, "cn"))
        sn == IF Get(record, "name") # <<>>
              THEN last_word(Get(record, "name"))
              ELSE [status |-> "ok", error |-> "none", val |-> S_User]
        h == extra_attributes(record)
        made == User(h, uid, base_dn, cn, sn.val,
                     IF h.dicts[1] # <<>> THEN 1 ELSE None)
    IN  IF request.schema_name # "user" THEN none
        ELSE IF sn.status = "error" THEN [none EXCEPT !.status = "error"]
        ELSE IF uid = <<>> \/ cn = <<>> THEN none
        ELSE IF made.status = "error" THEN [none EXCEPT !.status = "error"]
        ELSE [status |-> "ok",
              entry |-> EntryOf(made.heap, Len(made.heap.objects))]

\* The loop over request.data: the entries of the records that convert;
\* a record that raises or gives None is passed over.
RECURSIVE convert_loop(_, _, _)
convert_loop(request, i, converted) ==
    IF i > Len(request.data) THEN converted
    ELSE LET r == record_to_ldap_entry(request.data[i], request)
         IN  convert_loop(request, i + 1,
                          IF r.status = "ok" THEN Append(converted, r.entry)
                          ELSE converted)

GenerationResponse(job_id, status, message, output, record_count) ==
    [job_id |-> job_id, status |-> status, message |-> message,
     output |-> output, record_count |-> record_count]

\* The job is marked failed and the failed response returned.
Failed(js, rs, job_id, message) ==
    [jobs |-> [js EXCEPT ![job_id].status = "failed",
                         ![job_id].error_message = message],
     job_results |-> rs,
     response |-> GenerationResponse(job_id, "failed", message, <<>>, 0),
     assigned |-> <<"processing", "failed">>]

\* GenerationService.process_generation(job_id, request) on the jobs js
\* and the results rs: the jobs and the results after the call, the
\* response, and the statuses the call assigned to the job, in order.
process_generation(js, rs, job_id, request) ==
    LET converted == convert_loop(request, 1, <<>>)
        generated == generate_batch(converted)
    IN  IF job_id \notin DOMAIN js
        THEN [jobs |-> js, job_results |-> rs,
              response |-> GenerationResponse(job_id, "failed",
                                              Message(<<"Job not found">>, <<>>),
                                              <<>>, 0),
              assigned |-> <<>>]
        ELSE IF request.schema_name \notin AVAILABLE_SCHEMAS
        THEN Failed(js, rs, job_id,
                    Message(<<"Schema '", request.schema_name, "' not found">>,
                            <<>>))
        ELSE IF converted = <<>>
        THEN Failed(js, rs, job_id,
                    Message(<<"No valid LDAP entries generated">>, <<>>))
        ELSE IF generated.status = "error"
        THEN Failed(js, rs, job_id,
                    Message(<<"Invalid ", generated.error.field, ": ">>,
                            generated.error.value))
        ELSE [jobs |-> [js EXCEPT ![job_id].status = "completed",
                                  ![job_id].output_records = Len(converted),
                                  ![job_id].progress_percentage = 100],
              job_results |-> [j \in DOMAIN rs \cup {job_id} |->
                                 IF j = job_id THEN generated.output
                                 ELSE rs[j]],
              response |-> GenerationResponse(job_id, "completed",
                               Message(<<"Generation completed successfully">>,
                                       <<>>),
                               generated.output, Len(converted)),
              assigned |-> <<"processing", "completed">>]

\* What get_job_result returns: None, or a stored output.
Nothing == [some |-> FALSE, output |-> <<>>]
Some(output) == [some |-> TRUE, output |-> output]

\* GenerationService.get_job_result(job_id)
get_job_result(js, rs, job_id) ==
    IF job_id \in DOMAIN js /\ js[job_id].status = "completed"
    THEN IF job_id \in DOMAIN rs THEN Some(rs[job_id]) ELSE Nothing
    ELSE Nothing

HTTPException(status_code, detail) ==
    [field |-> "HTTPException", value |-> <<>>,
     status_code |-> status_code, detail |-> detail]

\* The outcome of a handler: what it was asked (the job id where it has
\* one), the body it answered with or the HTTPException it raised, the
\* text in the body, and the statuses it assigned to the job, in order.
Answered(op, job_id, body, output, assigned) ==
    [op |-> op, args |-> <<job_id>>, status |-> "ok", error |-> NoError,
     output |-> output, body |-> body, assigned |-> assigned]

Refused(op, job_id, status_code, detail, assigned) ==
    [op |-> op, args |-> <<job_id>>, status |-> "error",
     error |-> HTTPException(status_code, Message(detail, <<>>)),
     output |-> <<>>, body |-> [detail |-> Message(detail, <<>>)],
     assigned |-> assigned]

ldifVars == <<entries, arg, ret, heap>>

\* GenerationService.create_job(request), called by a handler op.
create_job(op, request) ==
    /\ jobs' = Append(jobs, GenerationJob(Len(request.data)))
    /\ requests' = Append(requests, request)
    /\ result' = Answered(op, Len(jobs) + 1,
                          GenerationJob(Len(request.data)), <<>>,
                          <<"pending">>)
    /\ UNCHANGED job_results

\* POST /jobs
create_generation_job(request) ==
    /\ request.data = <<>> \/ Len(jobs) < MaxJobs
    /\ IF request.data = <<>>
       THEN /\ result' = Refused("create_generation_job", None, 400,
                                 <<"Data cannot be empty">>, <<>>)
            /\ UNCHANGED serviceVars
       ELSE create_job("create_generation_job", request)
    /\ UNCHANGED <<ldifVars, graphVars>>

\* POST /generate
generate_ldif(request) ==
    /\ request.data = <<>> \/ Len(jobs) < MaxJobs
    /\ IF request.data = <<>>
       THEN /\ result' = Refused("generate_ldif", None, 400,
                                 <<"Data cannot be empty">>, <<>>)
            /\ UNCHANGED serviceVars
       ELSE \E job_id \in {Len(jobs) + 1} :
            \E done \in {process_generation(
                            Append(jobs, GenerationJob(Len(request.data))),
                            job_results, job_id, request)} :
                /\ jobs' = done.jobs
                /\ job_results' = done.job_results
                /\ requests' = Append(requests, request)
                /\ result' =
                     IF done.response.status = "failed"
                     THEN [Refused("generate_ldif", job_id, 400, <<>>,
                                   <<"pending">> \o done.assigned)
                             EXCEPT !.error.detail = done.response.message,
                                    !.body.detail = done.response.message]
                     ELSE Answered("generate_ldif", job_id, done.response,
                                   done.response.output,
                                   <<"pending">> \o done.assigned)
    /\ UNCHANGED <<ldifVars, graphVars>>

\* An uploaded file, as what reading it gives: rows, or an exception.
Unreadable == [readable |-> FALSE, data |-> <<>>]
Rows(data) == [readable |-> TRUE, data |-> data]

upload(op, file, schema_name, base_dn, empty, failed) ==
    /\ file.data = <<>> \/ Len(jobs) < MaxJobs
    /\ IF ~file.readable
       THEN /\ result' = Refused(op, None, 400, <<failed>>, <<>>)
            /\ UNCHANGED serviceVars
       ELSE IF file.data = <<>>
       THEN /\ result' = Refused(op, None, 400, <<empty>>, <<>>)
            /\ UNCHANGED serviceVars
       ELSE create_job(op, GenerationRequest(file.data, schema_name, base_dn))
    /\ UNCHANGED <<ldifVars, graphVars>>

\* POST /upload/csv
upload_csv(file, schema_name, base_dn) ==
    upload("upload_csv", file, schema_name, base_dn,
           "CSV file is empty", "CSV upload failed")

\* POST /upload/json
upload_json(file, schema_name, base_dn) ==
    upload("upload_json", file, schema_name, base_dn,
           "JSON file contains no records", "JSON upload failed")

\* The mutant of the result endpoint: it answers with whatever the service
\* returns for a job that exists.
get_job_result_endpoint_unguarded(job_id, download) ==
    /\ result' =
         IF job_id \notin DOMAIN jobs
         THEN Refused("get_job_result", job_id, 404, <<"Job not found">>, <<>>)
         ELSE Answered("get_job_result", job_id,
                       [job_id |-> job_id, download |-> download],
                       get_job_result(jobs, job_results, job_id).output, <<>>)
    /\ UNCHANGED <<ldifVars, serviceVars, graphVars>>

\* GET /jobs/{job_id}/result: the output in a JSON body, or as a file to
\* download.
get_job_result_endpoint(job_id, download) ==
    /\ result' =
         IF job_id \notin DOMAIN jobs
         THEN Refused("get_job_result", job_id, 404, <<"Job not found">>, <<>>)
         ELSE IF jobs[job_id].status # "completed"
         THEN Refused("get_job_result", job_id, 400,
                      <<"Job is ", jobs[job_id].status,
                        ", cannot retrieve result">>, <<>>)
         ELSE IF get_job_result(jobs, job_results, job_id).output = <<>>
         THEN Refused("get_job_result", job_id, 404,
                      <<"Result not found">>, <<>>)
         ELSE Answered("get_job_result", job_id,
                       [job_id |-> job_id, download |-> download],
                       get_job_result(jobs, job_results, job_id).output, <<>>)
    /\ UNCHANGED <<ldifVars, serviceVars, graphVars>>

\* The request process_job makes for a stored job.
reconstructed_request == GenerationRequest(<<>>, "user", <<>>)

\* The mutant of process_job: a job of any status is processed.
process_job_any_status(job_id) ==
    /\ IF job_id \notin DOMAIN jobs
       THEN /\ result' = Refused("process_job", job_id, 404,
                                 <<"Job not found">>, <<>>)
            /\ UNCHANGED <<jobs, job_results>>
       ELSE \E done \in {process_generation(jobs, job_results, job_id,
                                               reconstructed_request)} :
                /\ jobs' = done.jobs
                /\ job_results' = done.job_results
                /\ result' = Answered("process_job", job_id, done.response,
                                      done.response.output, done.assigned)
    /\ UNCHANGED <<ldifVars, requests, graphVars>>

\* POST /jobs/{job_id}/process
process_job(job_id) ==
    /\ IF job_id \notin DOMAIN jobs
       THEN /\ result' = Refused("process_job", job_id, 404,
                                 <<"Job not found">>, <<>>)
            /\ UNCHANGED <<jobs, job_results>>
       ELSE IF jobs[job_id].status # "pending"
       THEN /\ result' = Refused("process_job", job_id, 400,
                                 <<"Job is ", jobs[job_id].status,
                                   ", cannot process">>, <<>>)
            /\ UNCHANGED <<jobs, job_results>>
       ELSE \E done \in {process_generation(jobs, job_results, job_id,
                                               reconstructed_request)} :
                /\ jobs' = done.jobs
                /\ job_results' = done.job_results
                /\ result' = Answered("process_job", job_id, done.response,
                                      done.response.output, done.assigned)
    /\ UNCHANGED <<ldifVars, requests, graphVars>>

\* A caller of the service asks GenerationService.get_job_result(job_id).
CallGetJobResult(job_id) ==
    /\ ret' = [fn |-> "get_job_result", job_id |-> job_id,
               returned |-> get_job_result(jobs, job_results, job_id)]
    /\ UNCHANGED <<entries, result, arg, heap, serviceVars, graphVars>>

(***************************************************************************)
(* SpecJobs: clients of the HTTP interface create, generate, upload,       *)
(* process and fetch, in any order.                                        *)
(***************************************************************************)
S_a_sp_b == <<97, SPACE, 98>>

R_full == <<[key |-> "id", value |-> S_a], [key |-> "name", value |-> S_a_sp_b],
            [key |-> "email", value |-> S_a], [key |-> "age", value |-> S_one_c]>>
R_noid == <<[key |-> "name", value |-> S_a]>>
R_blank == <<[key |-> "id", value |-> S_a], [key |-> "name", value |-> <<SPACE>>]>>
R_cn == <<[key |-> "uid", value |-> S_cn], [key |-> "cn", value |-> S_a]>>

\* The requests of POST /generate: every outcome of process_generation.
RequestInputs ==
    {GenerationRequest(data, "user", <<>>) : data \in {<<>>, <<R_full>>}}
    \cup {GenerationRequest(<<R_blank, R_cn, R_full>>, "user", S_dc_x),
          GenerationRequest(<<R_full>>, "user", S_invalid),
          GenerationRequest(<<R_full>>, "product", <<>>),
          GenerationRequest(<<R_full>>, "nosuch", <<>>)}

\* The requests of POST /jobs.
CreateInputs ==
    {GenerationRequest(data, "user", <<>>) :
        data \in {<<>>, <<R_full>>, <<R_full, R_noid>>}}

CsvInputs == {Unreadable, Rows(<<>>), Rows(<<R_full>>)}

JsonInputs == {Unreadable, Rows(<<>>), Rows(<<R_noid>>)}

JobIds == 1..(MaxJobs + 1)

InitJobs ==
    /\ entries = <<>>
    /\ result = NoCall
    /\ arg = <<>>
    /\ ret = NoRet
    /\ NoJobs /\ NoGraph
    /\ heap = NoHeap

NextJobs ==
    \/ \E request \in CreateInputs : create_generation_job(request)
    \/ \E request \in RequestInputs : generate_ldif(request)
    \/ \E file \in CsvInputs : upload_csv(file, "user", <<>>)
    \/ \E file \in JsonInputs : upload_json(file, "user", S_dc_x)
    \/ \E job_id \in JobIds : process_job(job_id)
    \/ \E job_id \in JobIds, download \in BOOLEAN :
          get_job_result_endpoint(job_id, download)
    \/ \E job_id \in JobIds : CallGetJobResult(job_id)

SpecJobs == InitJobs /\ [][NextJobs]_vars

(***************************************************************************)
(* coding_agents: the graph intake -> plan -> code -> test of graph.py     *)
(* and the agents of agents.py.  'state' is the CodingState the graph      *)
(* carries and 'node' the node to run next.  A module text (the plan, the  *)
(* code, the tests) is kept as the function name it is written for and     *)
(* the task text it quotes.                                                *)
(***************************************************************************)
MAX_ITERS == 3

Keywords ==
    {"add", "sum", "factorial", "fibonacci", "sort", "reverse", "string"}

\* re.sub(r"\s+", " ", task.strip()): no keyword and no quote has white
\* space in it.
normalize(task) == [task EXCEPT !.padded = FALSE]

\* str.lower()
lower(task) == [task EXCEPT !.upper = FALSE]

infer_function_name(task) ==
    IF "add" \in lower(task).keywords \/ "sum" \in lower(task).keywords
    THEN "add"
    ELSE IF "factorial" \in lower(task).keywords THEN "factorial"
    ELSE IF "fibonacci" \in lower(task).keywords THEN "fibonacci"
    ELSE IF "sort" \in lower(task).keywords THEN "sort_numbers"
    ELSE IF "reverse" \in lower(task).keywords
            /\ "string" \in lower(task).keywords
    THEN "reverse_string"
    ELSE "solve"

\* The module text: a docstring quoting the task, then the body written
\* for func_name.
generate_solution_code(func_name, task) ==
    [func_name |-> func_name, task |-> task]

\* The text of run_tests for func_name; it quotes no task.
generate_tests(func_name, task) == [func_name |-> func_name, task |-> NoTask]

\* exec(code) raises SyntaxError when the task breaks the docstring; the
\* bodies of generate_solution_code pass the run_tests written for them,
\* and the run_tests of "solve" asserts nothing.
run_code_and_tests(code, tests) ==
    IF code.task.breaks_module
    THEN [result |-> FALSE, output |-> "Code execution error"]
    ELSE [result |-> TRUE, output |-> "Tests OK"]

\* The mutant of route_after_test: one more round before giving up.
route_after_test_one_more(s) ==
    IF s.test_passed THEN "END"
    ELSE IF s.iterations > MAX_ITERS THEN "END"
    ELSE "code"

route_after_test(s) ==
    IF s.test_passed THEN "END"
    ELSE IF s.iterations >= MAX_ITERS THEN "END"
    ELSE "code"

intake_agent ==
    /\ node = "intake"
    /\ state' = [state EXCEPT !.normalized_task = normalize(state.task),
                              !.status = "intake_done",
                              !.history = Append(@, "Intake: task received")]
    /\ node' = "plan"
    /\ UNCHANGED <<ldifVars, result, serviceVars>>

planner_agent ==
    /\ node = "plan"
    /\ state' = [state EXCEPT
                   !.plan = [func_name |->
                               infer_function_name(state.normalized_task),
                             task |-> state.normalized_task],
                   !.status = "plan_done",
                   !.history = Append(@, "Planner: plan prepared")]
    /\ node' = "code"
    /\ UNCHANGED <<ldifVars, result, serviceVars>>

coder_agent ==
    /\ node = "code"
    /\ LET task == lower(state.normalized_task)
           func_name == infer_function_name(task)
       IN  state' = [state EXCEPT
                       !.code = generate_solution_code(func_name, task),
                       !.tests = generate_tests(func_name, task),
                       !.status = "code_done",
                       !.history = Append(@, "Coder: code generated")]
    /\ node' = "test"
    /\ UNCHANGED <<ldifVars, result, serviceVars>>

\* tester_agent, and the conditional edge taken on the state it returns.
tester_agent ==
    /\ node = "test"
    /\ LET run == run_code_and_tests(state.code, state.tests)
           new_state ==
              [state EXCEPT
                 !.test_passed = run.result,
                 !.test_output = run.output,
                 !.status = IF run.result THEN "test_passed" ELSE "test_failed",
                 !.iterations = state.iterations + 1,
                 !.history = Append(@, IF run.result THEN "Tester: tests passed"
                                       ELSE "Tester: tests failed")]
       IN  /\ state' = new_state
           /\ node' = route_after_test(new_state)
    /\ UNCHANGED <<ldifVars, result, serviceVars>>

(***************************************************************************)
(* SpecGraph: graph.invoke(CodingState(task=task)) for any task.  invoke   *)
(* runs the nodes one after the other until END, so a node that can run    *)
(* does run.                                                               *)
(***************************************************************************)
TaskInputs ==
    {[keywords |-> k, upper |-> u, padded |-> w, breaks_module |-> b] :
        k \in SUBSET Keywords, u \in BOOLEAN, w \in BOOLEAN, b \in BOOLEAN}

InitGraph ==
    /\ entries = <<>>
    /\ result = NoCall
    /\ arg = <<>>
    /\ ret = NoRet
    /\ NoJobs
    /\ heap = NoHeap
    /\ state \in {CodingState(task) : task \in TaskInputs}
    /\ node = "intake"

NextGraph ==
    \/ intake_agent
    \/ planner_agent
    \/ coder_agent
    \/ tester_agent

SpecGraph == InitGraph /\ [][NextGraph]_vars /\ WF_vars(NextGraph)

(***************************************************************************)
(* Vocabulary of the properties.                                           *)
(***************************************************************************)
\* The entries a call was given, in argument order.
ArgEntries == [k \in 1..Len(result.args) |-> entries[result.args[k]]]

IsValid(entry) == validate_entry(entry) = NoError

StartsWith(s, prefix) ==
    Len(s) >= Len(prefix) /\ SubSeq(s, 1, Len(prefix)) = prefix

\* Position of the first newline of s; 0 if it has none.
FirstLF(s) ==
    IF \E i \in 1..Len(s) : s[i] = LF
    THEN CHOOSE i \in 1..Len(s) : s[i] = LF /\ \A j \in 1..(i - 1) : s[j] # LF
    ELSE 0

\* s split at every newline.
RECURSIVE SplitLines(_)
SplitLines(s) ==
    IF FirstLF(s) = 0 THEN <<s>>
    ELSE <<SubSeq(s, 1, FirstLF(s) - 1)>>
         \o SplitLines(SubSeq(s, FirstLF(s) + 1, Len(s)))

\* Number of places of s where a blank-line separator (two newlines in a
\* row) stands.
CountSeparators(s) ==
    Cardinality({i \in 1..(Len(s) - 1) : s[i] = LF /\ s[i + 1] = LF})

\* The items an entry is rendered from, in rendering order: the DN, the
\* object classes, then every value of every attribute.
RECURSIVE AttributeItems(_)
AttributeItems(attributes) ==
    IF attributes = <<>> THEN <<>>
    ELSE [j \in 1..Len(Head(attributes).values) |->
              [name |-> Head(attributes).name, value |-> Head(attributes).values[j]]]
         \o AttributeItems(Tail(attributes))

ItemsOf(entry) ==
    <<[name |-> S_dn, value |-> dn(entry)]>>
    \o [k \in 1..Len(entry.object_classes) |->
            [name |-> S_objectClass, value |-> entry.object_classes[k]]]
    \o AttributeItems(entry.attributes)

\* Value of a base64 digit; 64 for anything else.
B64Value(c) ==
    IF c \in 65..90 THEN c - 65
    ELSE IF c \in 97..122 THEN c - 97 + 26
    ELSE IF c \in 48..57 THEN c - 48 + 52
    ELSE IF c = 43 THEN 62
    ELSE IF c = 47 THEN 63
    ELSE 64

\* The bytes a padded base64 text stands for; <<-1>> if it is not one.
RECURSIVE B64Decode(_)
B64Decode(t) ==
    IF t = <<>> THEN <<>>
    ELSE IF Len(t) < 4 \/ B64Value(t[1]) = 64 \/ B64Value(t[2]) = 64 THEN <<-1>>
    ELSE LET a == B64Value(t[1])
             b == B64Value(t[2])
             c == B64Value(t[3])
             d == B64Value(t[4])
             b1 == a * 4 + (b \div 16)
             b2 == (b % 16) * 16 + (c \div 4)
             b3 == (c % 4) * 64 + d
         IN  IF t[3] = EQUALS /\ t[4] = EQUALS
             THEN IF Len(t) = 4 /\ b % 16 = 0 THEN <<b1>> ELSE <<-1>>
             ELSE IF t[4] = EQUALS
             THEN IF Len(t) = 4 /\ c # 64 /\ c % 4 = 0 THEN <<b1, b2>> ELSE <<-1>>
             ELSE IF c = 64 \/ d = 64 THEN <<-1>>
             ELSE <<b1, b2, b3>> \o B64Decode(SubSeq(t, 5, Len(t)))

\* What the value of a plain line must not be.
PlainCarriable(value) ==
    /\ \A i \in 1..Len(value) : value[i] # LF /\ value[i] # 13
    /\ value # <<>> => value[1] \notin {SPACE, COLON, 60} /\ value[Len(value)] # SPACE

\* The line of one item: plain exactly when the value is safe, else the
\* name, two colons, a space and a base64 text that decodes to the UTF-8
\* bytes of the value.
ItemLine(item) ==
    IF is_safe_string(item.value)
    THEN item.name \o <<COLON, SPACE>> \o item.value
    ELSE item.name \o <<COLON, COLON, SPACE>> \o encode_value(item.value)

ItemLineOK(item) ==
    IF is_safe_string(item.value) THEN PlainCarriable(item.value)
    ELSE B64Decode(encode_value(item.value)) = utf8_encode(item.value)

\* The keystring grammar: a letter, then letters, digits and hyphens.
IsKeystring(s) ==
    /\ s # <<>>
    /\ IsLetter(s[1])
    /\ \A i \in 2..Len(s) : IsKeyChar(s[i])

\* A DN segment of the form key=value whose key is a keystring.
IsKeyValueSegment(seg) ==
    \E e \in 1..Len(seg) :
        /\ seg[e] = EQUALS
        /\ \A i \in 1..(e - 1) : seg[i] # EQUALS
        /\ IsKeystring(SubSeq(seg, 1, e - 1))

\* The segments of a DN: the pieces between its unescaped commas.
Segments(d) ==
    LET st == split(d)
    IN  Append(st.parts, st.current_part)

(***************************************************************************)
(* C1: generate on one entry validates it first: for an entry that fails   *)
(* validation the call ends in the validation error, returns no text and   *)
(* leaves rdn, parent_dn, object_classes and attributes as they were.      *)
(***************************************************************************)
C1_InvalidEntryNoOutput ==
    [][(result'.op = "generate" /\ ~IsValid(entries[result'.args[1]]))
        => /\ result'.status = "error"
           /\ result'.error = validate_entry(entries[result'.args[1]])
           /\ result'.output = <<>>
           /\ entries' = entries]_vars

C1_Witness ==
    /\ result.op = "generate"
    /\ result.status = "error"
    /\ result.error.field = "attribute name"
    /\ TotalValues(entries[1].attributes) > 0

(***************************************************************************)
(* C2: generate_batch is fail-fast: when some entry of the list is invalid *)
(* the call ends in the validation error of the first invalid entry in     *)
(* list order and returns no output.                                       *)
(***************************************************************************)
C2_BatchFailFast ==
    (result.op = "generate_batch" /\ \E k \in 1..Len(ArgEntries) : ~IsValid(ArgEntries[k]))
    => LET first == CHOOSE k \in 1..Len(ArgEntries) :
                       /\ ~IsValid(ArgEntries[k])
                       /\ \A j \in 1..(k - 1) : IsValid(ArgEntries[j])
       IN  /\ result.status = "error"
           /\ result.error = validate_entry(ArgEntries[first])
           /\ result.output = <<>>

C2_Witness ==
    /\ result.op = "generate_batch"
    /\ Len(result.args) = 3
    /\ IsValid(ArgEntries[1])
    /\ ~IsValid(ArgEntries[2])
    /\ IsValid(ArgEntries[3])
    /\ result.status = "error"
    /\ result.error = validate_entry(ArgEntries[2])

(***************************************************************************)
(* C3: for a list of n valid entries generate_batch returns the renderings *)
(* of the entries in input order joined by a blank line: n-1 separators,   *)
(* none at the start or the end, and the empty string for n = 0.           *)
(***************************************************************************)
C3_BatchJoin ==
    (result.op = "generate_batch" /\ \A k \in 1..Len(ArgEntries) : IsValid(ArgEntries[k]))
    => LET n == Len(ArgEntries)
           blocks == [k \in 1..n |-> generate(ArgEntries[k]).output]
           out == result.output
       IN  /\ result.status = "ok"
           /\ out = Join(blocks, <<LF, LF>>)
           /\ n = 0 => out = <<>>
           /\ n >= 1 => /\ CountSeparators(out) = n - 1
                        /\ out # <<>>
                        /\ out[1] # LF
                        /\ out[Len(out)] # LF

C3_Witness ==
    /\ result.op = "generate_batch"
    /\ Len(result.args) = 3
    /\ result.status = "ok"
    /\ ArgEntries[1] # ArgEntries[2]
    /\ CountSeparators(result.output) = 2

(***************************************************************************)
(* C4: for a valid entry generate returns 1 + len(object_classes) + (number *)
(* of attribute values) lines joined by single newlines: the dn line, the  *)
(* objectClass lines in list order, then one line per attribute value in   *)
(* map and list order.                                                     *)
(***************************************************************************)
C4_LineCount ==
    (result.op = "generate" /\ result.status = "ok")
    => LET e == entries[result.args[1]]
           items == ItemsOf(e)
           lines == SplitLines(result.output)
       IN  /\ Len(lines) = 1 + Len(e.object_classes) + TotalValues(e.attributes)
           /\ Len(lines) = Len(items)
           /\ \A k \in 1..Len(lines) : lines[k] = ItemLine(items[k])

(***************************************************************************)
(* C5: generate writes every item (the DN, each object class, each         *)
(* attribute value) as 'name: value' exactly when is_safe_string(value),   *)
(* and else as 'name:: ' and the padded base64 of the UTF-8 bytes of the   *)
(* value, so no plain line carries a value with LF or CR, with a leading   *)
(* space, colon or '<', or with a trailing space.                          *)
(***************************************************************************)
C5_SafeOrBase64 ==
    (result.op = "generate" /\ result.status = "ok")
    => LET items == ItemsOf(entries[result.args[1]])
       IN  /\ result.output = Join([k \in 1..Len(items) |-> ItemLine(items[k])], <<LF>>)
           /\ \A k \in 1..Len(items) : ItemLineOK(items[k])

C5_Witness ==
    /\ result.op = "generate"
    /\ result.status = "ok"
    /\ LET items == ItemsOf(entries[result.args[1]])
       IN  /\ ~is_safe_string(items[1].value)
           /\ \E k \in 2..Len(items) : ~is_safe_string(items[k].value)
           /\ \E k \in 2..Len(items) :
                 items[k].value # <<>> /\ is_safe_string(items[k].value)

(***************************************************************************)
(* C6: is_safe_string(s) is false exactly when s is non-empty and some     *)
(* character is 0, 10, 13 or above 127, or the first character is space,   *)
(* colon or '<', or the last character is a space.                         *)
(***************************************************************************)
C6_SafeString ==
    ret.fn = "is_safe_string"
    => (ret.val = FALSE
        <=> /\ arg # <<>>
            /\ \/ \E i \in 1..Len(arg) : arg[i] \in {0, 10, 13} \/ arg[i] > 127
               \/ arg[1] \in {32, 58, 60}
               \/ arg[Len(arg)] = 32)

C6_Witness ==
    /\ ret.fn = "is_safe_string"
    /\ ret.val = FALSE
    /\ Len(arg) = 2
    /\ arg[1] = 97
    /\ arg[2] = SPACE

(***************************************************************************)
(* C7: validate rejects every entry whose DN has a segment that is not of  *)
(* the form key=value with a keystring key (a key starting with a digit or *)
(* a hyphen included).                                                     *)
(***************************************************************************)
C7_KeystringSegments ==
    (result.op = "validate"
     /\ \E k \in 1..Len(Segments(dn(entries[1]))) :
           ~IsKeyValueSegment(Segments(dn(entries[1]))[k]))
    => result.status = "error"

(***************************************************************************)
(* C8: validate, and so generate, rejects every entry in which some        *)
(* attribute name maps to an empty list of values.                         *)
(***************************************************************************)
C8_NoEmptyValueList ==
    (result.op \in {"validate", "generate"}
     /\ \E k \in 1..Len(entries[1].attributes) : entries[1].attributes[k].values = <<>>)
    => result.status = "error"

(***************************************************************************)
(* C9: every entry validate accepts, and so every entry generate renders,  *)
(* has at least one object class, and every generated block has at least   *)
(* one objectClass line.                                                   *)
(***************************************************************************)
C9_SomeObjectClass ==
    (result.op \in {"validate", "generate"} /\ result.status = "ok")
    => /\ Len(entries[1].object_classes) >= 1
       /\ result.op = "generate" =>
             \E k \in 1..Len(SplitLines(result.output)) :
                 StartsWith(SplitLines(result.output)[k], S_objectClass \o <<COLON>>)

(***************************************************************************)
(* C10: validate rejects every entry whose rdn is the empty string, with   *)
(* an empty and with a non-empty parent_dn, so no such entry is rendered.  *)
(***************************************************************************)
C10_EmptyRdnRejected ==
    (result.op \in {"validate", "generate"} /\ entries[1].rdn = <<>>)
    => /\ result.status = "error"
       /\ result.error.field = "DN"
       /\ result.output = <<>>

C10_Witness ==
    /\ result.op = "generate"
    /\ entries[1].rdn = <<>>
    /\ entries[1].parent_dn # <<>>
    /\ result.status = "error"

(***************************************************************************)
(* C11: validate, and so generate, rejects every entry that has an object  *)
(* class name or an attribute name which, taken as a whole string, is not  *)
(* a keystring (a letter, then letters, digits and hyphens): an empty      *)
(* name, a name starting with a digit and a name holding a space, a colon, *)
(* a newline or a non-ASCII character never pass.                          *)
(***************************************************************************)
C11_KeystringNames ==
    (/\ result.op \in {"validate", "generate"}
     /\ \/ \E k \in 1..Len(entries[1].object_classes) :
              ~IsKeystring(entries[1].object_classes[k])
        \/ \E k \in 1..Len(entries[1].attributes) :
              ~IsKeystring(entries[1].attributes[k].name))
    => result.status = "error"

\* Value of a hexadecimal digit of either case; 16 for anything else.
HexValue(c) ==
    IF c \in 48..57 THEN c - 48
    ELSE IF c \in 97..102 THEN c - 97 + 10
    ELSE IF c \in 65..70 THEN c - 65 + 10
    ELSE 16

\* Whether out, read from position j, is one image per character of
\* value[i..], in order.  The image of a comma, plus, double quote,
\* backslash, '<', '>' or ';' is a backslash and the character; the image
\* of any other character is left as open as the escaping conventions are:
\* '#' alone or after one backslash (with hashFirstOnly: after one
\* backslash as the first character of the value, alone anywhere else), a
\* space after any run of backslashes, a backslash and the two hexadecimal
\* digits of the byte for every UTF-8 byte of a character outside 32..126,
\* and every other character itself.
RECURSIVE ImagesFrom(_, _, _, _, _)
ImagesFrom(value, i, out, j, hashFirstOnly) ==
    IF i > Len(value) THEN j = Len(out) + 1
    ELSE IF j > Len(out) THEN FALSE
    ELSE LET c == value[i]
         IN  IF c \in {COMMA, 43, 34, BACKSLASH, 60, 62, 59}
             THEN /\ j + 1 <= Len(out)
                  /\ out[j] = BACKSLASH
                  /\ out[j + 1] = c
                  /\ ImagesFrom(value, i + 1, out, j + 2, hashFirstOnly)
             ELSE IF c = SPACE
             THEN \E k \in j..Len(out) :
                     /\ out[k] = SPACE
                     /\ \A m \in j..(k - 1) : out[m] = BACKSLASH
                     /\ ImagesFrom(value, i + 1, out, k + 1, hashFirstOnly)
             ELSE IF c = 35
             THEN \/ /\ ~hashFirstOnly \/ i > 1
                     /\ out[j] = 35
                     /\ ImagesFrom(value, i + 1, out, j + 1, hashFirstOnly)
                  \/ /\ ~hashFirstOnly \/ i = 1
                     /\ j + 1 <= Len(out)
                     /\ out[j] = BACKSLASH
                     /\ out[j + 1] = 35
                     /\ ImagesFrom(value, i + 1, out, j + 2, hashFirstOnly)
             ELSE IF c < 32 \/ c > 126
             THEN /\ j + 3 * Len(utf8_char(c)) - 1 <= Len(out)
                  /\ \A b \in 0..(Len(utf8_char(c)) - 1) :
                        /\ out[j + 3 * b] = BACKSLASH
                        /\ HexValue(out[j + 3 * b + 1]) < 16
                        /\ HexValue(out[j + 3 * b + 2]) < 16
                        /\ 16 * HexValue(out[j + 3 * b + 1]) + HexValue(out[j + 3 * b + 2])
                              = utf8_char(c)[b + 1]
                  /\ ImagesFrom(value, i + 1, out, j + 3 * Len(utf8_char(c)), hashFirstOnly)
             ELSE out[j] = c /\ ImagesFrom(value, i + 1, out, j + 1, hashFirstOnly)

(***************************************************************************)
(* C12: escape_dn_value prefixes every occurrence of a comma, plus sign,   *)
(* double quote, backslash, '<', '>' and ';' in the raw value with exactly *)
(* one backslash, wherever in the value it occurs; escape_dn_value("a,b")  *)
(* is a\,b and User(uid="Smith, John") has the rdn uid=Smith\, John.       *)
(***************************************************************************)
C12_SevenEscaped ==
    (ret.fn = "escape_dn_value" /\ ret.status = "ok")
    => /\ ImagesFrom(arg, 1, ret.val, 1, FALSE)
       /\ escape_dn_value(<<97, COMMA, 98>>).val = <<97, BACKSLASH, COMMA, 98>>
       /\ User(NoHeap, <<83, 109, 105, 116, 104, COMMA, SPACE, 74, 111, 104, 110>>,
               <<>>, S_cn, S_sn, None).heap.objects[1].rdn
             = S_uid \o <<EQUALS, 83, 109, 105, 116, 104, BACKSLASH, COMMA, SPACE,
                          74, 111, 104, 110>>

C12_Witness ==
    /\ ret.fn = "escape_dn_value"
    /\ arg = <<59, 97, COMMA>>
    /\ ret.val = <<BACKSLASH, 59, 97, BACKSLASH, COMMA>>

(***************************************************************************)
(* C13: escape_dn_value backslash-escapes a '#' only when it is the first  *)
(* character of the value; a '#' at any later position is copied to the    *)
(* output unchanged.                                                       *)
(***************************************************************************)
C13_HashOnlyFirst ==
    (ret.fn = "escape_dn_value" /\ ret.status = "ok")
    => ImagesFrom(arg, 1, ret.val, 1, TRUE)

\* Number of backslashes that stand right before position k of s.
BackslashRun(s, k) ==
    Cardinality({m \in 1..(k - 1) : \A n \in m..(k - 1) : s[n] = BACKSLASH})

(***************************************************************************)
(* C14: a leading space and a trailing space of the value are escaped      *)
(* exactly once each: the output of a value that starts with a space       *)
(* starts with backslash, space; the output of a value that ends with a    *)
(* space ends with backslash, space, where that backslash is not the       *)
(* second half of an escaped backslash; and the value " " yields exactly   *)
(* backslash, space.                                                       *)
(***************************************************************************)
C14_EdgeSpacesOnce ==
    (ret.fn = "escape_dn_value" /\ ret.status = "ok" /\ arg # <<>>)
    => /\ arg[1] = SPACE => StartsWith(ret.val, <<BACKSLASH, SPACE>>)
       /\ arg[Len(arg)] = SPACE =>
             /\ ret.val[Len(ret.val)] = SPACE
             /\ BackslashRun(ret.val, Len(ret.val)) % 2 = 1
       /\ arg = <<SPACE>> => ret.val = <<BACKSLASH, SPACE>>

(***************************************************************************)
(* C15: escape_dn_value returns a result for every input string; in it     *)
(* every character with a code point below 32 or above 126 is replaced by  *)
(* one backslash and two hexadecimal digits per UTF-8 byte of the          *)
(* character, in byte order, so the output holds no control and no         *)
(* non-ASCII character.                                                    *)
(***************************************************************************)
C15_HexPerByte ==
    ret.fn = "escape_dn_value"
    => /\ ret.status = "ok"
       /\ ImagesFrom(arg, 1, ret.val, 1, FALSE)
       /\ \A k \in 1..Len(ret.val) : ret.val[k] \in 32..126

\* The values a mapping given by value binds to name.
ValuesOf(mapping, name) ==
    mapping[CHOOSE k \in 1..Len(mapping) : mapping[k].name = name].values

\* The documented merge: the base attributes in their order, each with the
\* values of the extra of the same name after its own, then the extras of
\* other names in caller order.
MergedAttributes(base, extras) ==
    [k \in 1..Len(base) |->
        [name |-> base[k].name,
         values |-> base[k].values
                    \o (IF HasAttr(extras, base[k].name)
                        THEN ValuesOf(extras, base[k].name) ELSE <<>>)]]
    \o SelectSeq(extras, LAMBDA x : ~HasAttr(base, x.name))

\* The entry the latest constructor call made.
MadeEntry == EntryOf(heap, Len(heap.objects))

(***************************************************************************)
(* C16: the constructors build the documented shape.  User gives the rdn   *)
(* uid=<escaped uid>, the object classes top, person, organizationalPerson,*)
(* inetOrgPerson and the attributes uid, cn, sn with the raw values, in    *)
(* that order; Group gives cn=<escaped cn>, top, groupOfNames and cn,      *)
(* member; OU gives ou=<escaped name>, top, organizationalUnit and ou.     *)
(* Extras follow the base attributes in caller order, and the values of an *)
(* extra named like a base attribute are appended after the base value.    *)
(***************************************************************************)
C16_ConstructorShape ==
    /\ (result.op = "User" /\ result.status = "ok") =>
          MadeEntry =
             LDAPEntry(S_uid \o <<EQUALS>> \o escape_dn_value(result.args.uid).val,
                       result.args.parent_dn,
                       <<S_top, S_person, S_organizationalPerson, S_inetOrgPerson>>,
                       MergedAttributes(<<[name |-> S_uid, values |-> <<result.args.uid>>],
                                          [name |-> S_cn, values |-> <<result.args.cn>>],
                                          [name |-> S_sn, values |-> <<result.args.sn>>]>>,
                                        result.args.additional_attributes))
    /\ (result.op = "Group" /\ result.status = "ok") =>
          MadeEntry =
             LDAPEntry(S_cn \o <<EQUALS>> \o escape_dn_value(result.args.cn).val,
                       result.args.parent_dn,
                       <<S_top, S_groupOfNames>>,
                       MergedAttributes(<<[name |-> S_cn, values |-> <<result.args.cn>>],
                                          [name |-> S_member,
                                           values |-> result.args.members]>>,
                                        result.args.additional_attributes))
    /\ (result.op = "OU" /\ result.status = "ok") =>
          MadeEntry =
             LDAPEntry(S_ou \o <<EQUALS>> \o escape_dn_value(result.args.name).val,
                       result.args.parent_dn,
                       <<S_top, S_organizationalUnit>>,
                       MergedAttributes(<<[name |-> S_ou, values |-> <<result.args.name>>]>>,
                                        result.args.additional_attributes))

C16_Witness ==
    /\ result.op = "User"
    /\ result.status = "ok"
    /\ result.args.uid = <<97, COMMA, SPACE, 98>>
    /\ MadeEntry.rdn = S_uid \o <<EQUALS, 97, BACKSLASH, COMMA, SPACE, 98>>
    /\ MadeEntry.attributes =
          <<[name |-> S_uid, values |-> <<<<97, COMMA, SPACE, 98>>>>],
            [name |-> S_cn, values |-> <<S_cn, S_a>>],
            [name |-> S_sn, values |-> <<S_sn>>],
            [name |-> S_mail, values |-> <<S_sp_a, S_a>>]>>

\* What add_attribute(name, value) is to make of the attributes 'before':
\* the value last in the list of the name, a one-element list at the end
\* for a name not present, everything else as it was.
AttributesAfterAdd(before, name, value) ==
    IF HasAttr(before, name)
    THEN [k \in 1..Len(before) |->
             IF before[k].name = name
             THEN [name |-> name, values |-> Append(before[k].values, value)]
             ELSE before[k]]
    ELSE Append(before, [name |-> name, values |-> <<value>>])

(***************************************************************************)
(* C17: add_attribute(name, value) appends the value as the last value of  *)
(* the list of that attribute, creating a one-element list at the end of   *)
(* the attribute map when the name was absent, and changes nothing else of *)
(* the entry: the values of every other attribute, the order of the names, *)
(* object_classes, rdn and parent_dn stay, so dn is still rdn when         *)
(* parent_dn is empty and rdn, comma, parent_dn otherwise.                 *)
(***************************************************************************)
C17_AddAttributeFrame ==
    [][result'.op = "add_attribute"
       => /\ EntryOf(heap', result'.args.object) =
                [EntryOf(heap, result'.args.object) EXCEPT !.attributes =
                    AttributesAfterAdd(@, result'.args.name, result'.args.value)]
          /\ dn(EntryOf(heap', result'.args.object)) =
                IF heap.objects[result'.args.object].parent_dn = <<>>
                THEN heap.objects[result'.args.object].rdn
                ELSE heap.objects[result'.args.object].rdn \o <<COMMA>>
                     \o heap.objects[result'.args.object].parent_dn]_vars

(***************************************************************************)
(* C18: entries share no mutable state.  For any two entries A and B, two  *)
(* entries constructed from the same additional_attributes mapping or the  *)
(* same members list included, add_attribute on A changes neither the      *)
(* attributes of B nor the mapping and the lists the caller passed to the  *)
(* constructors.                                                           *)
(***************************************************************************)
C18_NoSharedState ==
    [][result'.op = "add_attribute"
       => /\ \A b \in 1..Len(heap.objects) :
                b # result'.args.object
                => EntryOf(heap', b).attributes = EntryOf(heap, b).attributes
          /\ DictValue(heap', 1) = DictValue(heap, 1)
          /\ \A l \in 1..Len(CallerLists) : heap'.lists[l] = heap.lists[l]]_vars

(***************************************************************************)
(* C19: for an entry E that validates, every line of generate(E) starts    *)
(* with dn: or dn::, with objectClass: or objectClass::, or with the name  *)
(* of an attribute of E followed by : or ::, and the number of lines that  *)
(* start with objectClass equals len(E.object_classes).                    *)
(***************************************************************************)
C19_LinePrefixes ==
    (result.op = "generate" /\ result.status = "ok")
    => LET lines == SplitLines(result.output)
       IN  /\ \A k \in 1..Len(lines) :
                 \/ StartsWith(lines[k], S_dn \o <<COLON>>)
                 \/ StartsWith(lines[k], S_objectClass \o <<COLON>>)
                 \/ \E a \in 1..Len(entries[1].attributes) :
                       StartsWith(lines[k], entries[1].attributes[a].name \o <<COLON>>)
           /\ Cardinality({k \in 1..Len(lines) : StartsWith(lines[k], S_objectClass)})
                 = Len(entries[1].object_classes)

\* Number of places of s where sub stands.
CountSub(s, sub) ==
    Cardinality({i \in 1..(Len(s) - Len(sub) + 1) :
                    SubSeq(s, i, i + Len(sub) - 1) = sub})

\* The places of s where a block starts: the first character and the one
\* after every blank-line separator.
BlockStarts(s) ==
    {1} \cup {i + 2 : i \in {j \in 1..(Len(s) - 1) : s[j] = LF /\ s[j + 1] = LF}}

\* A batch of valid entries none of whose DN needs base64.
PlainDnBatch ==
    /\ result.op = "generate_batch"
    /\ Len(ArgEntries) >= 1
    /\ \A k \in 1..Len(ArgEntries) :
          IsValid(ArgEntries[k]) /\ is_safe_string(dn(ArgEntries[k]))

(***************************************************************************)
(* C20 as stated: for valid entries A and B neither of whose DN needs      *)
(* base64, generate_batch([A, B]) holds exactly one blank-line separator   *)
(* and the substring dn: exactly twice; exactly n times for n entries.     *)
(***************************************************************************)
C20_DnCountExact ==
    PlainDnBatch
    => /\ CountSeparators(result.output) = Len(ArgEntries) - 1
       /\ CountSub(result.output, S_dn \o <<COLON>>) = Len(ArgEntries)

(***************************************************************************)
(* C20 amended: for n valid entries none of whose DN needs base64,         *)
(* generate_batch returns n blocks with n - 1 blank-line separators, every *)
(* block starts with "dn: " followed by the DN of its entry, and the       *)
(* substring dn: occurs at least n times: exactly n times when it occurs   *)
(* in no block after the start, more often otherwise.                      *)
(***************************************************************************)
C20_DnBlocks ==
    PlainDnBatch
    => LET out == result.output
           n == Len(ArgEntries)
       IN  /\ result.status = "ok"
           /\ CountSeparators(out) = n - 1
           /\ Cardinality(BlockStarts(out)) = n
           /\ \A p \in BlockStarts(out) :
                 \E k \in 1..n :
                    StartsWith(SubSeq(out, p, Len(out)),
                               S_dn \o <<COLON, SPACE>> \o dn(ArgEntries[k]))
           /\ CountSub(out, S_dn \o <<COLON>>)
                 = n + Cardinality({i \in 1..(Len(out) - 2) :
                                       /\ SubSeq(out, i, i + 2) = S_dn \o <<COLON>>
                                       /\ i \notin BlockStarts(out)})

C20_Witness ==
    /\ PlainDnBatch
    /\ Len(ArgEntries) = 2
    /\ ArgEntries[1] # ArgEntries[2]
    /\ CountSeparators(result.output) = 1
    /\ CountSub(result.output, S_dn \o <<COLON>>) = 3

(***************************************************************************)
(* Jobs.                                                                   *)
(***************************************************************************)
\* The job a handler or a service call was asked about is in _jobs with
\* the given status.
HasStatus(js, job_id, status) ==
    job_id \in DOMAIN js /\ js[job_id].status = status

\* C21: GenerationService.get_job_result returns an output only for a job
\* that exists and is completed, and then the output stored for it; asked
\* for a job that is unknown, pending, processing or failed, it returns
\* none and the result endpoint raises an HTTPException instead of
\* answering with a result.
C21_ResultOnlyWhenCompleted ==
    [][/\ (ret' # ret /\ ret'.fn = "get_job_result")
            => /\ ret'.returned.some
                    => /\ HasStatus(jobs, ret'.job_id, "completed")
                       /\ ret'.job_id \in DOMAIN job_results
                       /\ ret'.returned.output = job_results[ret'.job_id]
               /\ ~HasStatus(jobs, ret'.job_id, "completed")
                    => ret'.returned = Nothing
       /\ (result' # result /\ result'.op = "get_job_result")
            => /\ ~HasStatus(jobs, result'.args[1], "completed")
                    => /\ result'.status = "error"
                       /\ result'.error.field = "HTTPException"
                       /\ result'.error.status_code \in {400, 404}
               /\ result'.status = "ok"
                    => /\ HasStatus(jobs, result'.args[1], "completed")
                       /\ result'.output = job_results[result'.args[1]]
      ]_vars

\* The service has returned the output of a completed job, and the
\* endpoint has refused the result of a job that is still pending.
C21_Witness ==
    /\ ret.fn = "get_job_result" /\ ret.returned.some
    /\ HasStatus(jobs, ret.job_id, "completed")
    /\ result.op = "get_job_result" /\ result.status = "error"
    /\ result.error.status_code = 400
    /\ HasStatus(jobs, result.args[1], "pending")

\* One move of a job's status along pending -> processing -> completed or
\* failed.
Forward(from, to) ==
    \/ from = "pending" /\ to = "processing"
    \/ from = "processing" /\ to \in {"completed", "failed"}

\* The statuses a handler assigned, from the status it found, move forward.
ForwardPath(from, assigned) ==
    \A k \in 1..Len(assigned) :
        Forward(IF k = 1 THEN from ELSE assigned[k - 1], assigned[k])

\* C28: through the HTTP operations a job's status only moves forward
\* along pending -> processing -> completed or failed: a handler that
\* changes the status of a stored job found it pending and assigned
\* processing and then completed or failed, a new job is assigned pending
\* first, a job that is completed or failed keeps its status, the process
\* operation refuses every job that is not pending and changes nothing,
\* and a failed job has no output stored or retrievable.
C28_StatusForward ==
    [][/\ Len(jobs') >= Len(jobs)
       /\ \A j \in DOMAIN jobs :
            /\ jobs[j].status \in {"completed", "failed"}
                 => jobs'[j].status = jobs[j].status
            /\ jobs'[j].status # jobs[j].status
                 => /\ result'.args = <<j>>
                    /\ Len(result'.assigned) = 2
                    /\ ForwardPath(jobs[j].status, result'.assigned)
                    /\ jobs'[j].status = result'.assigned[2]
       /\ \A j \in DOMAIN jobs' \ DOMAIN jobs :
            /\ result'.args = <<j>>
            /\ result'.assigned # <<>>
            /\ result'.assigned[1] = "pending"
            /\ ForwardPath("pending", Tail(result'.assigned))
            /\ jobs'[j].status = result'.assigned[Len(result'.assigned)]
       /\ (result' # result /\ result'.op = "process_job"
           /\ result'.args[1] \in DOMAIN jobs
           /\ jobs[result'.args[1]].status # "pending")
            => /\ result'.status = "error"
               /\ result'.error.status_code = 400
               /\ UNCHANGED serviceVars
       /\ \A j \in DOMAIN jobs' :
            jobs'[j].status = "failed"
                => /\ j \notin DOMAIN job_results'
                   /\ get_job_result(jobs', job_results', j) = Nothing
      ]_vars

\* The process operation has refused a completed job, and another job has
\* failed.
C28_Witness ==
    /\ result.op = "process_job" /\ result.status = "error"
    /\ HasStatus(jobs, result.args[1], "completed")
    /\ \E j \in DOMAIN jobs : jobs[j].status = "failed"

\* The entries the records of the request job j was created from convert
\* to, under that request.
ConvertedOf(j) == convert_loop(requests[j], 1, <<>>)

\* C29: a pending job created from at least one record that converts to a
\* user entry, when the process operation is applied to it, ends completed
\* with output_records the number of converted records and its output
\* retrievable.
C29_ProcessCompletes ==
    [][(result' # result /\ result'.op = "process_job"
        /\ HasStatus(jobs, result'.args[1], "pending")
        /\ ConvertedOf(result'.args[1]) # <<>>)
         => LET j == result'.args[1]
            IN  /\ jobs'[j].status = "completed"
                /\ jobs'[j].output_records = Len(ConvertedOf(j))
                /\ get_job_result(jobs', job_results', j).some
      ]_vars

(***************************************************************************)
(* Order of the checks of validate_entry.                                  *)
(***************************************************************************)
\* The positions of the names of a list that are no keystring.
InvalidNames(names) ==
    {k \in 1..Len(names) : ~validate_attribute_name(names[k])}

Least(S) == CHOOSE k \in S : \A j \in S : k <= j

AttributeNames(entry) ==
    [k \in 1..Len(entry.attributes) |-> entry.attributes[k].name]

S_cn_a_esc_comma_b_dc_x ==
    <<99, 110, EQUALS, 97, BACKSLASH, COMMA, 98, COMMA, 100, 99, EQUALS, 120>>

S_cn_a_esc_backslash_dc_x ==
    <<99, 110, EQUALS, 97, BACKSLASH, BACKSLASH, COMMA, 100, 99, EQUALS, 120>>

\* Character k of d is the second half of an escape: an odd number of
\* backslashes stands right before it.
Escaped(d, k) == BackslashRun(d, k) % 2 = 1

\* The commas of d that are not escaped.
SplitPoints(d) == {k \in 1..Len(d) : d[k] = COMMA /\ ~Escaped(d, k)}

\* The pieces of d between the positions of P, as first and last position.
PiecesAt(d, P) ==
    {<<a, b>> \in (1..(Len(d) + 1)) \X (0..Len(d)) :
        /\ a <= b + 1
        /\ a - 1 \in P \cup {0}
        /\ b + 1 \in P \cup {Len(d) + 1}
        /\ \A k \in P : k < a \/ k > b}

\* d ends in a backslash that escapes nothing.
Dangling(d) == Escaped(d, Len(d) + 1)

\* C23: validate_dn splits a DN at the commas that are not escaped and at
\* no other place, a backslash and the character after it counting as one
\* unit: the segments are the pieces between those commas, and the DN
\* passes exactly when it is not empty, does not end in an unpaired
\* backslash and every piece passes the check of a segment, which an empty
\* piece (a leading, trailing or doubled unescaped comma) fails.
C23_SplitAtUnescapedCommas ==
    /\ result.op = "validate"
       => LET d == dn(ArgEntries[1])
              pieces == PiecesAt(d, SplitPoints(d))
          IN  /\ Len(Segments(d)) = Cardinality(SplitPoints(d)) + 1
              /\ {Segments(d)[n] : n \in 1..Len(Segments(d))}
                   = {SubSeq(d, p[1], p[2]) : p \in pieces}
              /\ validate_dn(d)
                   <=> /\ d # <<>>
                       /\ ~Dangling(d)
                       /\ \A p \in pieces : part_ok(SubSeq(d, p[1], p[2]))
              /\ (\E p \in pieces : p[1] = p[2] + 1) => ~validate_dn(d)
              /\ Dangling(d) => ~validate_dn(d)
              /\ (result.error.field = "DN") <=> ~validate_dn(d)
    /\ validate_dn(S_cn_a_esc_comma_b_dc_x)
    /\ Len(Segments(S_cn_a_esc_comma_b_dc_x)) = 2
    /\ validate_dn(S_cn_a_esc_backslash_dc_x)
    /\ Segments(S_cn_a_esc_backslash_dc_x)
         = <<<<99, 110, EQUALS, 97, BACKSLASH, BACKSLASH>>, S_dc_x>>
    /\ ~validate_dn(S_cn_a \o <<COMMA, COMMA>> \o S_dc_x)
    /\ ~validate_dn(<<COMMA>> \o S_cn_a)
    /\ ~validate_dn(S_cn_a \o <<COMMA>>)
    /\ ~validate_dn(S_cn_a \o <<BACKSLASH>>)

\* validate has passed a DN with an escaped comma in its first segment and
\* an unescaped comma after it.
C23_Witness ==
    /\ result.op = "validate" /\ result.status = "ok"
    /\ \E k \in 1..Len(dn(ArgEntries[1])) :
          /\ dn(ArgEntries[1])[k] = COMMA
          /\ Escaped(dn(ArgEntries[1]), k)
          /\ \E j \in SplitPoints(dn(ArgEntries[1])) : j > k

(***************************************************************************)
(* Escaping twice.                                                         *)
(***************************************************************************)
IsAsciiAlnum(char) ==
    char \in 48..57 \/ char \in 65..90 \/ char \in 97..122

\* The escaper has something to escape in value: a character of its list,
\* a character outside 32..126, or a space at either end.
SomethingToEscape(value) ==
    \E k \in 1..Len(value) :
        \/ IsDnSpecial(value[k])
        \/ IsNonPrintable(value[k])
        \/ value[k] = SPACE /\ k \in {1, Len(value)}

\* C24: escape_dn_value applied to its own output gives that output back
\* exactly when the first application changed nothing; a value of ASCII
\* letters and digits only, and the empty string, is returned unchanged;
\* and when the first application escaped at least one character the
\* second returns a strictly longer string.
C24_EscapeTwice ==
    (ret.fn = "escape_dn_value" /\ ret.status = "ok")
    => LET once == ret.val
           twice == escape_dn_value(once)
       IN  /\ twice.status = "ok"
           /\ (twice.val = once) <=> (once = arg)
           /\ (\A k \in 1..Len(arg) : IsAsciiAlnum(arg[k])) => once = arg
           /\ SomethingToEscape(arg) <=> once # arg
           /\ SomethingToEscape(arg) => Len(twice.val) > Len(once)

\* A value with a comma has been escaped, and escaping the result again
\* escapes the backslash the first application wrote.
C24_Witness ==
    /\ ret.fn = "escape_dn_value" /\ ret.status = "ok"
    /\ arg = <<97, COMMA, 49>>
    /\ ret.val = <<97, BACKSLASH, COMMA, 49>>
    /\ escape_dn_value(ret.val).val
         = <<97, BACKSLASH, BACKSLASH, BACKSLASH, COMMA, 49>>

(***************************************************************************)
(* Values of the attributes of a constructed entry.                        *)
(***************************************************************************)
\* Entry object o was made by User, Group or OU: it has their classes.
MadeByUserGroupOU(h, o) ==
    h.objects[o].object_classes
        \in {<<S_top, S_person, S_organizationalPerson, S_inetOrgPerson>>,
             <<S_top, S_groupOfNames>>,
             <<S_top, S_organizationalUnit>>}

\* C25: in every state of an entry made by User, Group or OU, with any
\* arguments, and changed by add_attribute calls, every attribute name in
\* the attribute map has at least one value.
C25_EveryAttributeHasValue ==
    \A o \in 1..Len(heap.objects) :
        MadeByUserGroupOU(heap, o)
        => \A k \in 1..Len(EntryOf(heap, o).attributes) :
              EntryOf(heap, o).attributes[k].values # <<>>

(***************************************************************************)
(* The escaper and the DN check.                                           *)
(***************************************************************************)
\* The number of segments of a parent DN: none for the empty one.
ParentSegments(parent_dn) ==
    IF parent_dn = <<>> THEN 0 ELSE Len(Segments(parent_dn))

\* The entry a constructor call has just made.
NewEntryObject == EntryOf(heap, Len(heap.objects))

\* The DN of the entry made passes validate_dn and has one segment more
\* than the parent DN.
AgreeWhereMade ==
    /\ validate_dn(dn(NewEntryObject))
    /\ Len(Segments(dn(NewEntryObject)))
         = ParentSegments(result.args.parent_dn) + 1

\* C26: for every raw naming value and every parent DN that is empty or
\* passes validate_dn, User, Group and OU make an entry whose DN passes
\* validate_dn and has exactly one segment more than the parent DN.
C26_EscaperValidatorAgree ==
    (/\ result.op \in {"User", "Group", "OU"}
     /\ result.args.parent_dn = <<>> \/ validate_dn(result.args.parent_dn))
    => /\ result.status = "ok"
       /\ AgreeWhereMade

\* The constructor calls that return make such an entry.
AgreeWhereReturned ==
    (/\ result.op \in {"User", "Group", "OU"}
     /\ result.status = "ok"
     /\ result.args.parent_dn = <<>> \/ validate_dn(result.args.parent_dn))
    => AgreeWhereMade

(***************************************************************************)
(* The two escapers.                                                       *)
(***************************************************************************)
\* value has only characters 32..126, and '#' nowhere but in first place.
PrintableHashFirst(value) ==
    \A k \in 1..Len(value) :
        /\ value[k] \in 32..126
        /\ value[k] = 35 => k = 1

\* C27: the escape_dn_value of app/services/ldif/utils.py and the one of
\* src/src/utils.py return the same output for every value of printable
\* ASCII characters in which '#' occurs in first place only.
C27_EscapersAgree ==
    (/\ ret.fn \in {"escape_dn_value", "src.escape_dn_value"}
     /\ PrintableHashFirst(arg))
    => /\ escape_dn_value(arg).status = "ok"
       /\ ret.val = escape_dn_value(arg).val
       /\ ret.val = src_escape_dn_value(arg)

\* Apart from a lone space and from values ending in backslash, space, the
\* two agree.
EscapersAgreeElsewhere ==
    (/\ ret.fn \in {"escape_dn_value", "src.escape_dn_value"}
     /\ PrintableHashFirst(arg)
     /\ arg # <<SPACE>>
     /\ ~(Len(arg) >= 2 /\ SubSeq(arg, Len(arg) - 1, Len(arg)) = <<BACKSLASH, SPACE>>))
    => /\ ret.val = escape_dn_value(arg).val
       /\ ret.val = src_escape_dn_value(arg)

(***************************************************************************)
(* The coding-agents graph.                                                *)
(***************************************************************************)
Edges ==
    {<<"intake", "plan">>, <<"plan", "code">>, <<"code", "test">>,
     <<"test", "code">>, <<"test", "END">>}

====
